---- MODULE Spec2Model ----
(***************************************************************************)
(* A model of bdk_redb's Store (src/src/lib.rs): the redb database is a    *)
(* map from table names to tables, a table is a map from keys to values,   *)
(* a write transaction is a working copy of the database that replaces the *)
(* committed one at commit, and a read transaction is the committed        *)
(* database at the time it was begun.                                      *)
(***************************************************************************)
EXTENDS Integers, Sequences, FiniteSets, TLC

VARIABLES
    db,      \* the committed database: table name -> (key -> value)
    op,      \* the Store operation that ran last
    arg,     \* the changeset that operation was given
    res,     \* how it ended: "ok", "TableError" or "panic"
    view,    \* what the last read operation returned
    ncalls,  \* the number of persist calls so far
    hist,    \* the set-valued entries handed to persist calls that returned Ok
    store,   \* the wallet name of the Store that ran the last operation
    repeat,  \* whether the last persist call repeated the call before it
    prior,   \* where call orders are compared: the database before the last call
    pc,      \* where the reading thread is in its read operation
    rtx,     \* the read transaction of the reading thread: its snapshot
    seen,    \* the databases committed since the reading thread began
    writers  \* the writing threads: where each is in its persist call

vars == <<db, op, arg, res, view, ncalls, hist, store, repeat, prior, pc, rtx, seen,
         writers>>

\* the state of the reading thread
reader == <<pc, rtx, seen>>

(***************************************************************************)
(* Bounds of the model.                                                    *)
(***************************************************************************)
\* timestamps, amounts, indices and confirmation times range over 0..MaxVal
MaxVal == 1
\* the number of persist calls in one behaviour
MaxCalls == 2

Vals == 0 .. MaxVal

(***************************************************************************)
(* Tables of the key-value engine.                                         *)
(***************************************************************************)
Empty == << >>

Has(t, k) == k \in DOMAIN t

\* an insert that keeps the value stored for the key
Insert_IfAbsent(t, k, v) == [x \in (DOMAIN t) \cup {k} |-> IF x \in DOMAIN t THEN t[x] ELSE v]

Insert(t, k, v) == [x \in (DOMAIN t) \cup {k} |-> IF x = k THEN v ELSE t[x]]

\* a remove that empties the table when the key is not stored
Remove_OrClear(t, k) == IF k \in DOMAIN t THEN [x \in (DOMAIN t) \ {k} |-> t[x]] ELSE << >>

Remove(t, k) == [x \in (DOMAIN t) \ {k} |-> t[x]]

\* the map of one entry
One(k, v) == [x \in {k} |-> v]

\* write_tx.open_table: opens the table, creating it when it does not exist
OpenTable(w, name) == IF Has(w, name) THEN w ELSE Insert(w, name, Empty)

(***************************************************************************)
(* Table names (Store::new).                                               *)
(***************************************************************************)
NETWORK == "network"

wallet_name == "wallet1"

\* the wallet name of a second Store on the same database
other_wallet_name == "wallet2"

WalletNames == {wallet_name, other_wallet_name}

\* the table names Store::new builds from the wallet name, built once
TableNames ==
    [wn \in WalletNames |->
        [keychain |-> wn \o "_keychain",
         blocks |-> wn \o "_blocks",
         txs |-> wn \o "_txs",
         txouts |-> wn \o "_txouts",
         anchors |-> wn \o "_anchors",
         last_seen |-> wn \o "_last_seen",
         last_evicted |-> wn \o "_last_evicted",
         first_seen |-> wn \o "_first_seen",
         last_revealed |-> wn \o "_last_revealed",
         spk |-> wn \o "_spk"]]

\* a keychain table name that leaves the wallet name out
keychain_table_name_Shared(wn) == "keychain"

keychain_table_name(wn) == TableNames[wn].keychain
blocks_table_name(wn) == TableNames[wn].blocks
txs_table_name(wn) == TableNames[wn].txs
txouts_table_name(wn) == TableNames[wn].txouts
anchors_table_name(wn) == TableNames[wn].anchors
last_seen_table_name(wn) == TableNames[wn].last_seen
last_evicted_table_name(wn) == TableNames[wn].last_evicted
first_seen_table_name(wn) == TableNames[wn].first_seen
last_revealed_table_name(wn) == TableNames[wn].last_revealed
spk_table_name(wn) == TableNames[wn].spk

(***************************************************************************)
(* Domain values.                                                          *)
(***************************************************************************)
\* transactions, as create_one_inp_one_out_tx builds them from an amount
Transactions == {[amount |-> 1], [amount |-> 2]}

\* Transaction::compute_txid: a hash of the transaction
compute_txid(tx) == <<"txid", tx.amount>>

Txids == {compute_txid(tx) : tx \in Transactions}

\* ciborium::into_writer / ciborium::from_reader
Serialize(tx) == <<"cbor", tx>>
Deserialize(bytes) == bytes[2]
\* ciborium::from_reader returns Ok: the bytes are an encoding of a transaction
Decodes(bytes) == bytes[1] = "cbor"

\* u32::to_le_bytes / u32::from_le_bytes
to_le_bytes(n) ==
    <<n % 256, (n \div 256) % 256, (n \div 65536) % 256, (n \div 16777216) % 256>>
from_le_bytes(b) == b[1] + 256 * b[2] + 65536 * b[3] + 16777216 * b[4]

\* block ids: a height and a block hash (the hash as its byte array)
BlockIds == {[height |-> 300, hash |-> <<7>>]}

\* ConfirmationBlockTime anchors
Anchors == [block_id : BlockIds, confirmation_time : Vals]

\* AnchorWithMetaData for ConfirmationBlockTime
anchor_block(a) == a.block_id
metadata(a) == a.confirmation_time
from_id(id, meta) == [block_id |-> id, confirmation_time |-> meta]

\* the 36-byte block id of an anchor key: height (little endian), then hash
BlockIdBytes(id) == to_le_bytes(id.height) \o id.hash
BlockIdFromBytes(b) ==
    [height |-> from_le_bytes(SubSeq(b, 1, 4)), hash |-> SubSeq(b, 5, Len(b))]

OutPoints == {[txid |-> t, vout |-> 0] : t \in Txids}
TxOuts == {[value |-> v, script_pubkey |-> << >>] : v \in Vals}


(***************************************************************************)
(* Changesets (bdk_chain::tx_graph::ChangeSet).                            *)
(***************************************************************************)
EmptyTxGraph ==
    [txs |-> {}, txouts |-> Empty, anchors |-> {},
     last_seen |-> Empty, last_evicted |-> Empty, first_seen |-> Empty]

\* the order of Txid, the key of the BTreeMaps of a changeset
TxidLess(a, b) == a[2] < b[2]

\* the order of the hash bytes
RECURSIVE BytesLess(_, _)
BytesLess(a, b) ==
    IF a = << >> THEN b # << >>
    ELSE IF b = << >> THEN FALSE
    ELSE IF Head(a) # Head(b) THEN Head(a) < Head(b)
    ELSE BytesLess(Tail(a), Tail(b))

\* the derived order of BlockId: height, then hash
BlockIdLess(x, y) ==
    IF x.height # y.height THEN x.height < y.height ELSE BytesLess(x.hash, y.hash)

\* the order of BTreeSet<(ConfirmationBlockTime, Txid)>: block id, then
\* confirmation time, then txid
AnchorEntryLess(x, y) ==
    IF x[1].block_id # y[1].block_id THEN BlockIdLess(x[1].block_id, y[1].block_id)
    ELSE IF x[1].confirmation_time # y[1].confirmation_time
         THEN x[1].confirmation_time < y[1].confirmation_time
    ELSE TxidLess(x[2], y[2])

(***************************************************************************)
(* The referential check of persist_anchors, persist_last_seen,            *)
(* persist_last_evicted and persist_first_seen.                            *)
(***************************************************************************)
\* a check that lets every record through
TxnExists_Always(txs_table, txs, txid) == TRUE

\* a check that looks at the transactions of the changeset only
TxnExists_BatchOnly(txs_table, txs, txid) == \E tx \in txs : compute_txid(tx) = txid

\* txs_table.get(txid)?.is_some() || txs.iter().any(|tx| tx.compute_txid() == *txid)
TxnExists(txs_table, txs, txid) ==
    Has(txs_table, txid) \/ \E tx \in txs : compute_txid(tx) = txid

(***************************************************************************)
(* Store::persist_txs and Store::persist_txouts.                           *)
(***************************************************************************)
RECURSIVE InsertTxs(_, _)
InsertTxs(table, txs) ==
    IF txs = {} THEN table
    ELSE LET tx == CHOOSE x \in txs :
                      \A y \in txs : ~TxidLess(compute_txid(y), compute_txid(x))
         IN InsertTxs(Insert(table, compute_txid(tx), Serialize(tx)), txs \ {tx})

\* a persist_txs that empties the table before it writes
persist_txs_Overwrite(w, wn, txs) ==
    LET w1 == OpenTable(w, txs_table_name(wn))
    IN [w1 EXCEPT ![txs_table_name(wn)] = InsertTxs(Empty, txs)]

persist_txs(w, wn, txs) ==
    LET w1 == OpenTable(w, txs_table_name(wn))
    IN [w1 EXCEPT ![txs_table_name(wn)] = InsertTxs(@, txs)]

RECURSIVE InsertTxOuts(_, _, _)
InsertTxOuts(table, txouts, todo) ==
    IF todo = {} THEN table
    ELSE LET o == CHOOSE x \in todo : TRUE
         IN InsertTxOuts(
                Insert(table, <<o.txid, o.vout>>,
                       <<txouts[o].value, txouts[o].script_pubkey>>),
                txouts, todo \ {o})

\* a persist_txouts that leaves the row of a key that is already stored
persist_txouts_KeepOld(w, wn, txouts) ==
    LET w1 == OpenTable(w, txouts_table_name(wn))
        old == w1[txouts_table_name(wn)]
        new == InsertTxOuts(Empty, txouts, DOMAIN txouts)
    IN [w1 EXCEPT ![txouts_table_name(wn)] =
            [k \in (DOMAIN old) \cup (DOMAIN new) |->
                IF k \in DOMAIN old THEN old[k] ELSE new[k]]]

persist_txouts(w, wn, txouts) ==
    LET w1 == OpenTable(w, txouts_table_name(wn))
    IN [w1 EXCEPT ![txouts_table_name(wn)] = InsertTxOuts(@, txouts, DOMAIN txouts)]

(***************************************************************************)
(* Store::persist_anchors: the anchors in the order of the BTreeSet; the   *)
(* loop stops at the first anchor whose transaction does not exist.        *)
(***************************************************************************)
RECURSIVE AnchorsLoop(_, _, _, _)
AnchorsLoop(table, txs_table, txs, todo) ==
    IF todo = {} THEN [st |-> "ok", t |-> table]
    ELSE LET e == CHOOSE x \in todo : \A y \in todo : ~AnchorEntryLess(y, x)
             anchor == e[1]
             txid == e[2]
         IN IF TxnExists(txs_table, txs, txid)
            THEN AnchorsLoop(
                     Insert(table, <<txid, BlockIdBytes(anchor_block(anchor))>>,
                            metadata(anchor)),
                     txs_table, txs, todo \ {e})
            ELSE [st |-> "panic", t |-> table]

persist_anchors(w, read_tx, wn, anchors, txs) ==
    LET w1 == OpenTable(w, anchors_table_name(wn))
    IN IF ~Has(read_tx, txs_table_name(wn))
       THEN [st |-> "TableError", w |-> w1]
       ELSE LET l == AnchorsLoop(w1[anchors_table_name(wn)],
                                 read_tx[txs_table_name(wn)], txs, anchors)
            IN [st |-> l.st, w |-> [w1 EXCEPT ![anchors_table_name(wn)] = l.t]]

(***************************************************************************)
(* Store::persist_last_seen, persist_last_evicted, persist_first_seen: the *)
(* three loops are the same code on three tables.                          *)
(***************************************************************************)
RECURSIVE FlagsLoop(_, _, _, _, _)
FlagsLoop(table, txs_table, txs, flags, todo) ==
    IF todo = {} THEN [st |-> "ok", t |-> table]
    ELSE LET txid == CHOOSE x \in todo : \A y \in todo : ~TxidLess(y, x)
         IN IF TxnExists(txs_table, txs, txid)
            THEN FlagsLoop(Insert(table, txid, flags[txid]),
                           txs_table, txs, flags, todo \ {txid})
            ELSE [st |-> "panic", t |-> table]

PersistFlags(w, read_tx, name, txs_name, flags, txs) ==
    LET w1 == OpenTable(w, name)
    IN IF ~Has(read_tx, txs_name)
       THEN [st |-> "TableError", w |-> w1]
       ELSE LET l == FlagsLoop(w1[name], read_tx[txs_name], txs, flags, DOMAIN flags)
            IN [st |-> l.st, w |-> [w1 EXCEPT ![name] = l.t]]

persist_last_seen(w, read_tx, wn, last_seen, txs) ==
    PersistFlags(w, read_tx, last_seen_table_name(wn), txs_table_name(wn), last_seen, txs)

persist_last_evicted(w, read_tx, wn, last_evicted, txs) ==
    PersistFlags(w, read_tx, last_evicted_table_name(wn), txs_table_name(wn),
                 last_evicted, txs)

persist_first_seen(w, read_tx, wn, first_seen, txs) ==
    PersistFlags(w, read_tx, first_seen_table_name(wn), txs_table_name(wn),
                 first_seen, txs)

(***************************************************************************)
(* The end of a write transaction: write_tx.commit() makes the working     *)
(* copy the committed database; a write transaction dropped by an early    *)
(* return (?) or by a panic is not committed.                              *)
(***************************************************************************)
\* an end that commits the working copy whatever happened
EndWrite_CommitAnyway(d, r) == [st |-> r.st, db |-> r.w]

EndWrite(d, r) ==
    IF r.st = "ok" THEN [st |-> "ok", db |-> r.w] ELSE [st |-> r.st, db |-> d]

(***************************************************************************)
(* Store::persist_tx_graph.                                                *)
(***************************************************************************)
\* a persist_tx_graph whose guard reads the tables of its own write
\* transaction instead of a snapshot of the committed database
persist_tx_graph_ReadOwnWrites(d, wn, changeset) ==
    LET w1 == persist_txs(d, wn, changeset.txs)
        w2 == persist_txouts(w1, wn, changeset.txouts)
        r3 == persist_anchors(w2, w2, wn, changeset.anchors, changeset.txs)
        r4 == IF r3.st # "ok" THEN r3
              ELSE persist_last_seen(r3.w, w2, wn, changeset.last_seen, changeset.txs)
        r5 == IF r4.st # "ok" THEN r4
              ELSE persist_last_evicted(r4.w, w2, wn, changeset.last_evicted,
                                        changeset.txs)
        r6 == IF r5.st # "ok" THEN r5
              ELSE persist_first_seen(r5.w, w2, wn, changeset.first_seen, changeset.txs)
    IN EndWrite(d, r6)

\* a persist_tx_graph whose guard also takes the txid of an output, stored
\* or of the changeset, for the txid of a transaction
persist_tx_graph_OutputsCount(d, wn, changeset) ==
    LET outs == {k[1] : k \in DOMAIN (IF Has(d, txouts_table_name(wn))
                                       THEN d[txouts_table_name(wn)] ELSE Empty)}
                \cup {o.txid : o \in DOMAIN changeset.txouts}
        old == IF Has(d, txs_table_name(wn)) THEN d[txs_table_name(wn)] ELSE Empty
        read_tx == IF Has(d, txs_table_name(wn))
                   THEN [d EXCEPT ![txs_table_name(wn)] =
                            [t \in (DOMAIN old) \cup outs |->
                                IF t \in DOMAIN old THEN old[t] ELSE << >>]]
                   ELSE d
        w1 == persist_txs(d, wn, changeset.txs)
        w2 == persist_txouts(w1, wn, changeset.txouts)
        r3 == persist_anchors(w2, read_tx, wn, changeset.anchors, changeset.txs)
        r4 == IF r3.st # "ok" THEN r3
              ELSE persist_last_seen(r3.w, read_tx, wn, changeset.last_seen,
                                     changeset.txs)
        r5 == IF r4.st # "ok" THEN r4
              ELSE persist_last_evicted(r4.w, read_tx, wn, changeset.last_evicted,
                                        changeset.txs)
        r6 == IF r5.st # "ok" THEN r5
              ELSE persist_first_seen(r5.w, read_tx, wn, changeset.first_seen,
                                      changeset.txs)
    IN EndWrite(d, r6)

persist_tx_graph(d, wn, changeset) ==
    LET write_tx == d
        read_tx == d
        w1 == persist_txs(write_tx, wn, changeset.txs)
        w2 == persist_txouts(w1, wn, changeset.txouts)
        r3 == persist_anchors(w2, read_tx, wn, changeset.anchors, changeset.txs)
        r4 == IF r3.st # "ok" THEN r3
              ELSE persist_last_seen(r3.w, read_tx, wn, changeset.last_seen,
                                     changeset.txs)
        r5 == IF r4.st # "ok" THEN r4
              ELSE persist_last_evicted(r4.w, read_tx, wn, changeset.last_evicted,
                                        changeset.txs)
        r6 == IF r5.st # "ok" THEN r5
              ELSE persist_first_seen(r5.w, read_tx, wn, changeset.first_seen,
                                      changeset.txs)
    IN EndWrite(d, r6)

(***************************************************************************)
(* Store::create_tx_graph_tables.                                          *)
(***************************************************************************)
create_tx_graph_tables(d, wn) ==
    LET w1 == OpenTable(d, txs_table_name(wn))
        w2 == OpenTable(w1, txouts_table_name(wn))
        w3 == OpenTable(w2, anchors_table_name(wn))
        w4 == OpenTable(w3, last_seen_table_name(wn))
        w5 == OpenTable(w4, last_evicted_table_name(wn))
        w6 == OpenTable(w5, first_seen_table_name(wn))
    IN EndWrite(d, [st |-> "ok", w |-> w6])


(***************************************************************************)
(* Store::read_tx_graph and the read functions it calls: each opens its    *)
(* table in the read transaction (an error when the table does not exist)  *)
(* and inserts every row into the caller's collection.                     *)
(***************************************************************************)
\* BTreeMap::insert of every entry of m into base
InsertAll(base, m) ==
    [x \in (DOMAIN base) \cup (DOMAIN m) |-> IF x \in DOMAIN m THEN m[x] ELSE base[x]]

\* the rows that the loop of read_txs reaches: all, or those before the
\* first row whose value from_reader rejects
RowsBeforeFailure(table) ==
    {k \in DOMAIN table : \A j \in DOMAIN table : ~Decodes(table[j]) => TxidLess(k, j)}

read_txs(table, txs) == txs \cup {Deserialize(table[k]) : k \in RowsBeforeFailure(table)}

read_txouts(table, txouts) ==
    InsertAll(txouts,
              [o \in {[txid |-> k[1], vout |-> k[2]] : k \in DOMAIN table} |->
                  [value |-> table[<<o.txid, o.vout>>][1],
                   script_pubkey |-> table[<<o.txid, o.vout>>][2]]])

read_anchors(table, anchors) ==
    anchors \cup {<<from_id(BlockIdFromBytes(k[2]), table[k]), k[1]>> : k \in DOMAIN table}

read_last_seen(table, last_seen) == InsertAll(last_seen, table)
read_last_evicted(table, last_evicted) == InsertAll(last_evicted, table)
read_first_seen(table, first_seen) == InsertAll(first_seen, table)

read_tx_graph(d, wn, changeset) ==
    LET read_tx == d
        c1 == [changeset EXCEPT !.txs = read_txs(read_tx[txs_table_name(wn)], @)]
        c2 == [c1 EXCEPT !.txouts = read_txouts(read_tx[txouts_table_name(wn)], @)]
        c3 == [c2 EXCEPT !.anchors = read_anchors(read_tx[anchors_table_name(wn)], @)]
        c4 == [c3 EXCEPT !.last_seen = read_last_seen(read_tx[last_seen_table_name(wn)], @)]
        c5 == [c4 EXCEPT !.last_evicted =
                   read_last_evicted(read_tx[last_evicted_table_name(wn)], @)]
        c6 == [c5 EXCEPT !.first_seen =
                   read_first_seen(read_tx[first_seen_table_name(wn)], @)]
    IN IF ~Has(read_tx, txs_table_name(wn)) THEN [st |-> "TableError", cs |-> changeset]
       ELSE IF \E k \in DOMAIN read_tx[txs_table_name(wn)] :
                   ~Decodes(read_tx[txs_table_name(wn)][k])
            THEN [st |-> "Deser", cs |-> c1]
       ELSE IF ~Has(read_tx, txouts_table_name(wn)) THEN [st |-> "TableError", cs |-> c1]
       ELSE IF ~Has(read_tx, anchors_table_name(wn)) THEN [st |-> "TableError", cs |-> c2]
       ELSE IF ~Has(read_tx, last_seen_table_name(wn)) THEN [st |-> "TableError", cs |-> c3]
       ELSE IF ~Has(read_tx, last_evicted_table_name(wn))
            THEN [st |-> "TableError", cs |-> c4]
       ELSE IF ~Has(read_tx, first_seen_table_name(wn))
            THEN [st |-> "TableError", cs |-> c5]
       ELSE [st |-> "ok", cs |-> c6]

(***************************************************************************)
(* Store::read_tx_graph, one read function at a time, for a thread that    *)
(* reads while another commits: the read transaction read_tx was begun     *)
(* when the committed database was what read_tx holds, and d is the        *)
(* committed database now.                                                 *)
(***************************************************************************)
\* a read that opens its table in what is committed now
ReadOpenTable_Latest(read_tx, d, name) == d[name]

\* read_tx.open_table: the table as the snapshot holds it, whatever has
\* been committed since
ReadOpenTable(read_tx, d, name) == read_tx[name]

TxGraphSteps ==
    <<"txs", "txouts", "anchors", "last_seen", "last_evicted", "first_seen">>

TxGraphStepTable(wn, step) ==
    CASE step = "txs" -> txs_table_name(wn)
      [] step = "txouts" -> txouts_table_name(wn)
      [] step = "anchors" -> anchors_table_name(wn)
      [] step = "last_seen" -> last_seen_table_name(wn)
      [] step = "last_evicted" -> last_evicted_table_name(wn)
      [] step = "first_seen" -> first_seen_table_name(wn)

read_tx_graph_step(read_tx, d, wn, changeset, step) ==
    LET name == TxGraphStepTable(wn, step)
        table == ReadOpenTable(read_tx, d, name)
    IN IF ~Has(read_tx, name) THEN [st |-> "TableError", cs |-> changeset]
       ELSE IF step = "txs" /\ \E k \in DOMAIN table : ~Decodes(table[k])
            THEN [st |-> "Deser", cs |-> [changeset EXCEPT !.txs = read_txs(table, @)]]
       ELSE [st |-> "ok",
             cs |-> CASE step = "txs" ->
                           [changeset EXCEPT !.txs = read_txs(table, @)]
                      [] step = "txouts" ->
                           [changeset EXCEPT !.txouts = read_txouts(table, @)]
                      [] step = "anchors" ->
                           [changeset EXCEPT !.anchors = read_anchors(table, @)]
                      [] step = "last_seen" ->
                           [changeset EXCEPT !.last_seen = read_last_seen(table, @)]
                      [] step = "last_evicted" ->
                           [changeset EXCEPT !.last_evicted = read_last_evicted(table, @)]
                      [] step = "first_seen" ->
                           [changeset EXCEPT !.first_seen = read_first_seen(table, @)]]

(***************************************************************************)
(* The indexer (bdk_chain::keychain_txout::ChangeSet): Store::persist_     *)
(* indexer, persist_last_revealed, persist_spks and the reads.             *)
(***************************************************************************)
Descriptors == {[desc |-> "A"], [desc |-> "B"]}

\* Descriptor::to_string and Descriptor::from_str
descriptor_to_string(d) == "tr(" \o d.desc \o ")"
DescriptorStrings == [d \in Descriptors |-> descriptor_to_string(d)]
descriptor_from_str(str) == CHOOSE d \in Descriptors : DescriptorStrings[d] = str
\* Descriptor::from_str returns Ok
descriptor_parses(str) == \E d \in Descriptors : DescriptorStrings[d] = str

\* DescriptorExt::descriptor_id: a hash of the descriptor
descriptor_id(d) == <<"did", d.desc>>
DescriptorIds == {descriptor_id(d) : d \in Descriptors}

\* script bytes
Scripts == {<<v>> : v \in Vals}

EmptyIndexer == [last_revealed |-> Empty, spk_cache |-> Empty]

RECURSIVE InsertLastRevealed(_, _, _)
InsertLastRevealed(table, last_revealed, todo) ==
    IF todo = {} THEN table
    ELSE LET desc == CHOOSE x \in todo : TRUE
         IN InsertLastRevealed(Insert(table, desc, last_revealed[desc]),
                               last_revealed, todo \ {desc})

\* a persist_last_revealed that adds the index to the one stored
persist_last_revealed_Accumulate(w, wn, last_revealed) ==
    LET w1 == OpenTable(w, last_revealed_table_name(wn))
        t == w1[last_revealed_table_name(wn)]
    IN [w1 EXCEPT ![last_revealed_table_name(wn)] =
            [k \in DOMAIN t \cup DOMAIN last_revealed |->
                IF k \in DOMAIN last_revealed
                THEN (IF k \in DOMAIN t THEN t[k] ELSE 0) + last_revealed[k]
                ELSE t[k]]]

persist_last_revealed(w, wn, last_revealed) ==
    LET w1 == OpenTable(w, last_revealed_table_name(wn))
    IN [w1 EXCEPT ![last_revealed_table_name(wn)] =
            InsertLastRevealed(@, last_revealed, DOMAIN last_revealed)]

\* the (descriptor id, index) pairs of a script cache
SpkKeys(spk_cache) ==
    UNION {{<<desc, i>> : i \in DOMAIN spk_cache[desc]} : desc \in DOMAIN spk_cache}

RECURSIVE InsertSpks(_, _, _)
InsertSpks(table, spk_cache, todo) ==
    IF todo = {} THEN table
    ELSE LET k == CHOOSE x \in todo : TRUE
         IN InsertSpks(Insert(table, k, spk_cache[k[1]][k[2]]), spk_cache, todo \ {k})

persist_spks(w, wn, spk_cache) ==
    LET w1 == OpenTable(w, spk_table_name(wn))
    IN [w1 EXCEPT ![spk_table_name(wn)] = InsertSpks(@, spk_cache, SpkKeys(spk_cache))]

persist_indexer(d, wn, changeset) ==
    LET write_tx == d
        w1 == persist_last_revealed(write_tx, wn, changeset.last_revealed)
        w2 == persist_spks(w1, wn, changeset.spk_cache)
    IN EndWrite(d, [st |-> "ok", w |-> w2])

create_indexer_tables(d, wn) ==
    LET w1 == OpenTable(d, spk_table_name(wn))
        w2 == OpenTable(w1, last_revealed_table_name(wn))
    IN EndWrite(d, [st |-> "ok", w |-> w2])

read_last_revealed(table, last_revealed) == InsertAll(last_revealed, table)

\* a read_spks that replaces the scripts of a descriptor that has rows
read_spks_Replace(table, spk_cache) ==
    LET descs == {k[1] : k \in DOMAIN table}
    IN [desc \in (DOMAIN spk_cache) \cup descs |->
           IF desc \in descs
           THEN [i \in {k[2] : k \in {x \in DOMAIN table : x[1] = desc}} |->
                    table[<<desc, i>>]]
           ELSE spk_cache[desc]]

\* spk_cache.entry(desc).or_default().insert(index, script) for every row
read_spks(table, spk_cache) ==
    LET descs == {k[1] : k \in DOMAIN table}
    IN [desc \in (DOMAIN spk_cache) \cup descs |->
           LET old == IF desc \in DOMAIN spk_cache THEN spk_cache[desc] ELSE Empty
               rows == {k \in DOMAIN table : k[1] = desc}
           IN InsertAll(old, [i \in {k[2] : k \in rows} |-> table[<<desc, i>>]])]

read_indexer(d, wn, changeset) ==
    LET read_tx == d
        c1 == [changeset EXCEPT !.last_revealed =
                   read_last_revealed(read_tx[last_revealed_table_name(wn)], @)]
        c2 == [c1 EXCEPT !.spk_cache = read_spks(read_tx[spk_table_name(wn)], @)]
    IN IF ~Has(read_tx, last_revealed_table_name(wn))
       THEN [st |-> "TableError", cs |-> changeset]
       ELSE IF ~Has(read_tx, spk_table_name(wn)) THEN [st |-> "TableError", cs |-> c1]
       ELSE [st |-> "ok", cs |-> c2]

(***************************************************************************)
(* Store::persist_network, persist_keychains, persist_local_chain and the  *)
(* reads.                                                                  *)
(***************************************************************************)
Networks == {"Bitcoin", "Regtest"}

\* Network::to_string and Network::from_str
network_to_string(n) == IF n = "Bitcoin" THEN "bitcoin" ELSE "regtest"
network_from_str(str) == IF str = "bitcoin" THEN "Bitcoin" ELSE "Regtest"
\* Network::from_str returns Ok
network_parses(str) == str \in {"bitcoin", "regtest"}

\* Option<T>: None, or Some of a value
None == [some |-> FALSE]
Some(x) == [some |-> TRUE, val |-> x]

\* a persist_network that removes the stored network when it is given None
persist_network_ClearOnNone(d, wn, network) ==
    LET w1 == OpenTable(d, NETWORK)
        w2 == [w1 EXCEPT ![NETWORK] =
                   IF network.some THEN Insert(@, wn, network_to_string(network.val))
                   ELSE Remove(@, wn)]
    IN EndWrite(d, [st |-> "ok", w |-> w2])

persist_network(d, wn, network) ==
    LET w1 == OpenTable(d, NETWORK)
        w2 == IF network.some
              THEN [w1 EXCEPT ![NETWORK] = Insert(@, wn, network_to_string(network.val))]
              ELSE w1
    IN EndWrite(d, [st |-> "ok", w |-> w2])

RECURSIVE InsertKeychains(_, _, _)
InsertKeychains(table, changeset, todo) ==
    IF todo = {} THEN table
    ELSE LET label == CHOOSE x \in todo : \A y \in todo : x <= y
         IN InsertKeychains(Insert(table, label, descriptor_to_string(changeset[label])),
                            changeset, todo \ {label})

\* a persist_keychains that replaces the stored descriptors by the
\* changeset's
persist_keychains_Replace(d, wn, changeset) ==
    LET w1 == OpenTable(d, keychain_table_name(wn))
        w2 == [w1 EXCEPT ![keychain_table_name(wn)] =
                   InsertKeychains(Empty, changeset, DOMAIN changeset)]
    IN EndWrite(d, [st |-> "ok", w |-> w2])

\* a persist_keychains that writes nothing
persist_keychains_Skip(d, wn, changeset) == [st |-> "ok", db |-> d]

persist_keychains(d, wn, changeset) ==
    LET w1 == OpenTable(d, keychain_table_name(wn))
        w2 == [w1 EXCEPT ![keychain_table_name(wn)] =
                   InsertKeychains(@, changeset, DOMAIN changeset)]
    IN EndWrite(d, [st |-> "ok", w |-> w2])

\* block heights and block hashes (the hashes as their byte arrays)
Heights == {0, 1, 2}
BlockHashes == {<<7>>, <<8>>}

EmptyLocalChain == [blocks |-> Empty]

RECURSIVE persist_blocks_loop(_, _, _)
persist_blocks_loop(table, blocks, todo) ==
    IF todo = {} THEN table
    ELSE LET ht == CHOOSE x \in todo : \A y \in todo : x <= y
         IN persist_blocks_loop(
                IF blocks[ht].some THEN Insert(table, ht, blocks[ht].val)
                ELSE Remove(table, ht),
                blocks, todo \ {ht})

\* a loop that skips the entries whose hash is None
RECURSIVE persist_blocks_loop_KeepAll(_, _, _)
persist_blocks_loop_KeepAll(table, blocks, todo) ==
    IF todo = {} THEN table
    ELSE LET ht == CHOOSE x \in todo : \A y \in todo : x <= y
         IN persist_blocks_loop_KeepAll(
                IF blocks[ht].some THEN Insert(table, ht, blocks[ht].val) ELSE table,
                blocks, todo \ {ht})

\* a persist_blocks that skips the entries whose hash is None
persist_blocks_KeepAll(w, wn, blocks) ==
    LET w1 == OpenTable(w, blocks_table_name(wn))
    IN [w1 EXCEPT ![blocks_table_name(wn)] =
            persist_blocks_loop_KeepAll(@, blocks, DOMAIN blocks)]

persist_blocks(w, wn, blocks) ==
    LET w1 == OpenTable(w, blocks_table_name(wn))
    IN [w1 EXCEPT ![blocks_table_name(wn)] = persist_blocks_loop(@, blocks, DOMAIN blocks)]

persist_local_chain(d, wn, changeset) ==
    LET write_tx == d
        w1 == persist_blocks(write_tx, wn, changeset.blocks)
    IN EndWrite(d, [st |-> "ok", w |-> w1])

read_network(d, wn, network) ==
    IF ~Has(d, NETWORK) THEN [st |-> "TableError", val |-> network]
    ELSE IF Has(d[NETWORK], wn) /\ ~network_parses(d[NETWORK][wn])
         THEN [st |-> "panic", val |-> network]
    ELSE [st |-> "ok",
          val |-> IF Has(d[NETWORK], wn) THEN Some(network_from_str(d[NETWORK][wn]))
                  ELSE None]

read_keychains(d, wn, desc_changeset) ==
    IF ~Has(d, keychain_table_name(wn)) THEN [st |-> "TableError", val |-> desc_changeset]
    ELSE LET table == d[keychain_table_name(wn)]
         IN IF \E label \in DOMAIN table : ~descriptor_parses(table[label])
            THEN [st |-> "panic", val |-> desc_changeset]
            ELSE [st |-> "ok",
                  val |-> InsertAll(desc_changeset,
                                    [label \in DOMAIN table |->
                                        descriptor_from_str(table[label])])]

read_blocks(table, blocks) ==
    InsertAll(blocks, [ht \in DOMAIN table |-> Some(table[ht])])

read_local_chain(d, wn, changeset) ==
    IF ~Has(d, blocks_table_name(wn)) THEN [st |-> "TableError", cs |-> changeset]
    ELSE [st |-> "ok",
          cs |-> [changeset EXCEPT !.blocks = read_blocks(d[blocks_table_name(wn)], @)]]

create_local_chain_tables(d, wn) ==
    EndWrite(d, [st |-> "ok", w |-> OpenTable(d, blocks_table_name(wn))])

(***************************************************************************)
(* Store::create_tables, persist_wallet and read_wallet                    *)
(* (bdk_wallet::ChangeSet). persist_wallet runs five write transactions,   *)
(* one after the other, and returns at the first that fails.               *)
(***************************************************************************)
EmptyWallet ==
    [descriptor |-> None, change_descriptor |-> None, network |-> None,
     local_chain |-> EmptyLocalChain, tx_graph |-> EmptyTxGraph, indexer |-> EmptyIndexer]

\* a create_tables that opens no table
create_tables_Nothing(d, wn) == [st |-> "ok", db |-> d]

create_tables(d, wn) ==
    LET w1 == OpenTable(d, NETWORK)
        w2 == OpenTable(w1, keychain_table_name(wn))
        d1 == EndWrite(d, [st |-> "ok", w |-> w2]).db
        d2 == create_local_chain_tables(d1, wn).db
        d3 == create_tx_graph_tables(d2, wn).db
    IN create_indexer_tables(d3, wn)

\* a persist_wallet that stores the change descriptor whenever there is one
desc_changeset_of_ChangeAlone(changeset) ==
    LET d0 == IF changeset.descriptor.some THEN One(0, changeset.descriptor.val) ELSE Empty
    IN IF changeset.change_descriptor.some
       THEN Insert(d0, 1, changeset.change_descriptor.val)
       ELSE d0

\* the descriptors of a wallet changeset, by label
desc_changeset_of(changeset) ==
    IF changeset.descriptor.some
    THEN IF changeset.change_descriptor.some
         THEN Insert(One(0, changeset.descriptor.val), 1, changeset.change_descriptor.val)
         ELSE One(0, changeset.descriptor.val)
    ELSE Empty

persist_wallet(d, wn, changeset) ==
    LET r1 == persist_network(d, wn, changeset.network)
        r2 == IF r1.st # "ok" THEN r1
              ELSE persist_keychains(r1.db, wn, desc_changeset_of(changeset))
        r3 == IF r2.st # "ok" THEN r2
              ELSE persist_local_chain(r2.db, wn, changeset.local_chain)
        r4 == IF r3.st # "ok" THEN r3
              ELSE persist_indexer(r3.db, wn, changeset.indexer)
    IN IF r4.st # "ok" THEN r4 ELSE persist_tx_graph(r4.db, wn, changeset.tx_graph)

read_wallet(d, wn, changeset) ==
    LET n == read_network(d, wn, changeset.network)
        c1 == [changeset EXCEPT !.network = n.val]
        k == read_keychains(d, wn, Empty)
        c2 == IF k.st = "ok" /\ Has(k.val, 0)
              THEN IF Has(k.val, 1)
                   THEN [c1 EXCEPT !.descriptor = Some(k.val[0]),
                                   !.change_descriptor = Some(k.val[1])]
                   ELSE [c1 EXCEPT !.descriptor = Some(k.val[0])]
              ELSE c1
        l == read_local_chain(d, wn, c2.local_chain)
        c3 == [c2 EXCEPT !.local_chain = l.cs]
        t == read_tx_graph(d, wn, c3.tx_graph)
        c4 == [c3 EXCEPT !.tx_graph = t.cs]
        i == read_indexer(d, wn, c4.indexer)
        c5 == [c4 EXCEPT !.indexer = i.cs]
    IN IF n.st # "ok" THEN [st |-> n.st, cs |-> changeset]
       ELSE IF k.st # "ok" THEN [st |-> k.st, cs |-> c1]
       ELSE IF l.st # "ok" THEN [st |-> l.st, cs |-> c3]
       ELSE IF t.st # "ok" THEN [st |-> t.st, cs |-> c4]
       ELSE [st |-> i.st, cs |-> c5]

\* WalletPersister::initialize: create_tables, then read_wallet into a
\* default changeset
initialize(d, wn) ==
    LET c == create_tables(d, wn)
        r == read_wallet(c.db, wn, EmptyWallet)
    IN IF c.st # "ok" THEN [st |-> c.st, db |-> c.db, cs |-> EmptyWallet]
       ELSE [st |-> r.st, db |-> c.db, cs |-> r.cs]

(***************************************************************************)
(* Store::read_wallet, one read operation at a time: each of the five      *)
(* operations begins a read transaction of its own, on the database d that *)
(* is committed when it runs.                                              *)
(***************************************************************************)
WalletSteps == <<"network", "keychains", "local_chain", "tx_graph", "indexer">>

read_wallet_step(d, wn, changeset, step) ==
    CASE step = "network" ->
           LET n == read_network(d, wn, changeset.network)
           IN [st |-> n.st, cs |-> [changeset EXCEPT !.network = n.val]]
      [] step = "keychains" ->
           LET k == read_keychains(d, wn, Empty)
           IN [st |-> k.st,
               cs |-> IF k.st = "ok" /\ Has(k.val, 0)
                      THEN IF Has(k.val, 1)
                           THEN [changeset EXCEPT !.descriptor = Some(k.val[0]),
                                                  !.change_descriptor = Some(k.val[1])]
                           ELSE [changeset EXCEPT !.descriptor = Some(k.val[0])]
                      ELSE changeset]
      [] step = "local_chain" ->
           LET l == read_local_chain(d, wn, changeset.local_chain)
           IN [st |-> l.st, cs |-> [changeset EXCEPT !.local_chain = l.cs]]
      [] step = "tx_graph" ->
           LET t == read_tx_graph(d, wn, changeset.tx_graph)
           IN [st |-> t.st, cs |-> [changeset EXCEPT !.tx_graph = t.cs]]
      [] step = "indexer" ->
           LET i == read_indexer(d, wn, changeset.indexer)
           IN [st |-> i.st, cs |-> [changeset EXCEPT !.indexer = i.cs]]

(***************************************************************************)
(* The changesets the callers pass: no dependent record, one dependent     *)
(* record, or one of three shapes of several dependent records.            *)
(***************************************************************************)
\* every dependent record about one transaction (the changesets of
\* test_tx_graph_persistence)
FullFor(t, a) ==
    [txs |-> {}, txouts |-> Empty, anchors |-> {<<a, t>>},
     last_seen |-> One(t, a.confirmation_time),
     last_evicted |-> One(t, a.confirmation_time),
     first_seen |-> One(t, a.confirmation_time)]

TxGraphRecords ==
    {EmptyTxGraph}
    \cup {[EmptyTxGraph EXCEPT !.txouts = One(o, x)] : o \in OutPoints, x \in TxOuts}
    \cup {[EmptyTxGraph EXCEPT !.anchors = {<<a, t>>}] : a \in Anchors, t \in Txids}
    \cup {[EmptyTxGraph EXCEPT !.last_seen = One(t, v)] : t \in Txids, v \in Vals}
    \cup {[EmptyTxGraph EXCEPT !.last_evicted = One(t, v)] : t \in Txids, v \in Vals}
    \cup {[EmptyTxGraph EXCEPT !.first_seen = One(t, v)] : t \in Txids, v \in Vals}
    \cup {FullFor(t, a) : t \in Txids, a \in Anchors}
    \* an anchor of one transaction and a last_seen of another
    \cup {[EmptyTxGraph EXCEPT !.anchors = {<<a, e[1]>>},
                               !.last_seen = One(e[2], a.confirmation_time)] :
             a \in Anchors, e \in {x \in Txids \X Txids : x[1] # x[2]}}
    \* two anchors of one transaction in one block
    \cup {[EmptyTxGraph EXCEPT !.anchors = {<<e[1], t>>, <<e[2], t>>}] :
             t \in Txids,
             e \in {x \in Anchors \X Anchors :
                       /\ x[1].block_id = x[2].block_id
                       /\ x[1].confirmation_time < x[2].confirmation_time}}

\* with no transaction or one transaction; or all the transactions alone
TxGraphChangeSets ==
    {[c EXCEPT !.txs = s] :
        c \in TxGraphRecords, s \in {{}} \cup {{tx} : tx \in Transactions}}
    \cup {[EmptyTxGraph EXCEPT !.txs = Transactions]}

\* the indexer changesets: any last_revealed map alone, or one script with
\* or without the last_revealed index of its descriptor
PartialMaps(K, V) == UNION {[D -> V] : D \in SUBSET K}

IndexerChangeSets ==
    {[last_revealed |-> m, spk_cache |-> Empty] : m \in PartialMaps(DescriptorIds, Vals)}
    \cup {[last_revealed |-> m, spk_cache |-> One(k[1], One(k[2], x))] :
             k \in DescriptorIds \X Vals, x \in Scripts, m \in {Empty}}
    \cup {[last_revealed |-> One(k[1], k[2]), spk_cache |-> One(k[1], One(k[2], x))] :
             k \in DescriptorIds \X Vals, x \in Scripts}

\* the tx-graph changesets that hold transactions, outputs and anchors only
SetChangeSets ==
    {c \in TxGraphChangeSets :
        c.last_seen = Empty /\ c.last_evicted = Empty /\ c.first_seen = Empty}

\* the indexer changesets that hold scripts only
SpkChangeSets == {c \in IndexerChangeSets : c.last_revealed = Empty}

\* the local chain changesets: a block hash or None at any of the heights
LocalChainChangeSets ==
    {[blocks |-> m] :
        m \in PartialMaps(Heights, {None} \cup {Some(x) : x \in BlockHashes})}

\* the keychain changesets: a descriptor at label 0, at label 1, or at both
KeychainChangeSets == PartialMaps({0, 1}, Descriptors)

\* the networks a caller passes, or none
NetworkOptions == {None} \cup {Some(n) : n \in Networks}

\* the wallet changesets: at most two of these parts, the rest default
TheTx == CHOOSE tx \in Transactions : \A y \in Transactions : tx.amount <= y.amount
OtherTx == CHOOSE tx \in Transactions : tx # TheTx
TheAnchor == CHOOSE a \in Anchors : a.confirmation_time = MaxVal
EarlyAnchor ==
    CHOOSE a \in Anchors : a.block_id = TheAnchor.block_id /\ a.confirmation_time = 0
DescA == CHOOSE d \in Descriptors : d.desc = "A"
DescB == CHOOSE d \in Descriptors : d.desc = "B"

WalletParts ==
    {<<"network", Some(n)>> : n \in Networks}
    \cup {<<"descs", <<Some(DescA), None>>>>, <<"descs", <<Some(DescA), Some(DescB)>>>>,
          <<"descs", <<Some(DescB), None>>>>, <<"descs", <<None, Some(DescB)>>>>}
    \cup {<<"local_chain", [blocks |-> One(0, Some(<<7>>))]>>,
          <<"local_chain", [blocks |-> One(0, None)]>>}
    \cup {<<"indexer", [last_revealed |-> One(descriptor_id(DescA), MaxVal),
                        spk_cache |-> Empty]>>,
          <<"indexer", [last_revealed |-> Empty,
                        spk_cache |-> One(descriptor_id(DescA), One(0, <<0>>))]>>}
    \cup {<<"tx_graph", [EmptyTxGraph EXCEPT !.txs = {TheTx}]>>,
          <<"tx_graph", [FullFor(compute_txid(TheTx), TheAnchor) EXCEPT !.txs = {TheTx}]>>,
          <<"tx_graph", [EmptyTxGraph EXCEPT
                             !.anchors = {<<TheAnchor, compute_txid(OtherTx)>>}]>>,
          <<"tx_graph", [EmptyTxGraph EXCEPT
                             !.txs = {TheTx},
                             !.last_seen = One(compute_txid(OtherTx), MaxVal)]>>,
          <<"tx_graph", [EmptyTxGraph EXCEPT
                             !.txs = {TheTx},
                             !.anchors = {<<TheAnchor, compute_txid(TheTx)>>,
                                          <<EarlyAnchor, compute_txid(TheTx)>>}]>>}

PartOr(P, field, default) ==
    IF \E p \in P : p[1] = field THEN (CHOOSE p \in P : p[1] = field)[2] ELSE default

WalletOf(P) ==
    [descriptor |-> PartOr(P, "descs", <<None, None>>)[1],
     change_descriptor |-> PartOr(P, "descs", <<None, None>>)[2],
     network |-> PartOr(P, "network", None),
     local_chain |-> PartOr(P, "local_chain", EmptyLocalChain),
     tx_graph |-> PartOr(P, "tx_graph", EmptyTxGraph),
     indexer |-> PartOr(P, "indexer", EmptyIndexer)]

WalletChangeSets ==
    {WalletOf(P) :
        P \in {{}} \cup {{p} : p \in WalletParts}
              \cup {{e[1], e[2]} : e \in {x \in WalletParts \X WalletParts : x[1][1] # x[2][1]}}}

\* the wallet changesets of one part or none
SinglePartChangeSets == {WalletOf(P) : P \in {{}} \cup {{p} : p \in WalletParts}}

\* the wallet changesets of set-valued and monotonic fields only: a
\* transaction alone or with an observation flag, an anchor or an output of
\* it; a last_revealed index; a cached script
OrderParts ==
    {<<"tx_graph", [EmptyTxGraph EXCEPT !.txs = {TheTx}]>>,
     <<"tx_graph", [EmptyTxGraph EXCEPT !.txs = {TheTx},
                                        !.anchors = {<<TheAnchor, compute_txid(TheTx)>>}]>>}
    \cup {<<"tx_graph", [EmptyTxGraph EXCEPT !.txs = {TheTx},
                                             !.last_seen = One(compute_txid(TheTx), v)]>> :
             v \in Vals}
    \cup {<<"tx_graph", [EmptyTxGraph EXCEPT !.txs = {TheTx},
                                             !.last_evicted = One(compute_txid(TheTx), v)]>> :
             v \in Vals}
    \cup {<<"tx_graph", [EmptyTxGraph EXCEPT !.txs = {TheTx},
                                             !.first_seen = One(compute_txid(TheTx), v)]>> :
             v \in Vals}
    \cup {<<"tx_graph", [EmptyTxGraph EXCEPT
                             !.txouts = One([txid |-> compute_txid(TheTx), vout |-> 0], x)]>> :
             x \in TxOuts}
    \cup {<<"indexer", [last_revealed |-> One(descriptor_id(DescA), v),
                        spk_cache |-> Empty]>> : v \in Vals}
    \cup {<<"indexer", [last_revealed |-> Empty,
                        spk_cache |-> One(descriptor_id(DescA), One(0, <<0>>))]>>}

OrderChangeSets == {WalletOf({p}) : p \in OrderParts}

\* the tx-graph changesets a writing thread commits while another reads: a
\* transaction alone, or an anchor and flags with a transaction
ConcurrentChangeSets ==
    {[EmptyTxGraph EXCEPT !.txs = {tx}] : tx \in Transactions}
    \cup {[FullFor(t, a) EXCEPT !.txs = {tx}] :
             t \in Txids, a \in Anchors, tx \in Transactions}

\* the keys of a changeset
TxKeys(changeset) == {compute_txid(tx) : tx \in changeset.txs}
AnchorKeys(changeset) == {<<e[2], anchor_block(e[1])>> : e \in changeset.anchors}

(***************************************************************************)
(* The state machine: every action is one call of a Store operation.       *)
(***************************************************************************)
NoArg == [none |-> TRUE]
NoView == [st |-> "none"]
NoKeys == [txs |-> {}, txouts |-> {}, anchors |-> {}, spks |-> {}, blocks |-> {}]

\* the entries a tx-graph and an indexer changeset add to those persisted
WithTxGraphKeys(h, changeset) ==
    [h EXCEPT !.txs = @ \cup changeset.txs,
              !.txouts = @ \cup {<<o, changeset.txouts[o]>> : o \in DOMAIN changeset.txouts},
              !.anchors = @ \cup changeset.anchors]
WithIndexerKeys(h, changeset) ==
    [h EXCEPT !.spks = @ \cup {<<k, changeset.spk_cache[k[1]][k[2]]>> :
                                 k \in SpkKeys(changeset.spk_cache)}]

WithBlocks(h, changeset) ==
    [h EXCEPT !.blocks = @ \cup {<<ht, changeset.blocks[ht].val>> :
                                   ht \in {x \in DOMAIN changeset.blocks :
                                              changeset.blocks[x].some}}]

\* the threads that write through one Store, and a thread outside a call
Threads == {1, 2}

IdleWriter ==
    [pc |-> "idle", changeset |-> EmptyWallet, read_tx |-> Empty, w |-> None,
     st |-> "ok", overtaken |-> FALSE]

Init ==
    /\ db = Empty
    /\ op = "new"
    /\ arg = NoArg
    /\ res = "ok"
    /\ view = NoView
    /\ ncalls = 0
    /\ hist = NoKeys
    /\ store = wallet_name
    /\ repeat = FALSE
    /\ prior = Empty
    /\ pc = "idle"
    /\ rtx = Empty
    /\ seen = {}
    /\ writers = [thread \in Threads |-> IdleWriter]

\* a create operation: the tables exist afterwards
Create(name, r) ==
    /\ db' = r.db
    /\ op' = name
    /\ arg' = NoArg
    /\ res' = r.st
    /\ view' = NoView
    /\ repeat' = FALSE
    /\ UNCHANGED <<ncalls, hist, store, prior, reader, writers>>

\* a read operation: the database is as before
Read(name, r) ==
    /\ view' = r
    /\ op' = name
    /\ arg' = NoArg
    /\ res' = r.st
    /\ repeat' = FALSE
    /\ UNCHANGED <<db, ncalls, hist, store, prior, reader, writers>>

\* a persist operation
Persist(name, changeset, r, h) ==
    /\ ncalls < MaxCalls
    /\ db' = r.db
    /\ op' = name
    /\ arg' = changeset
    /\ res' = r.st
    /\ hist' = IF r.st = "ok" THEN h ELSE hist
    /\ view' = NoView
    /\ ncalls' = ncalls + 1
    /\ repeat' = (op = name /\ arg = changeset)
    /\ UNCHANGED <<store, prior, reader, writers>>

CreateTxGraphTables ==
    Create("create_tx_graph_tables", create_tx_graph_tables(db, wallet_name))

CreateIndexerTables ==
    Create("create_indexer_tables", create_indexer_tables(db, wallet_name))

CreateTables == Create("create_tables", create_tables(db, wallet_name))

PersistTxGraph ==
    \E changeset \in TxGraphChangeSets :
        Persist("persist_tx_graph", changeset,
                persist_tx_graph(db, wallet_name, changeset),
                WithTxGraphKeys(hist, changeset))

PersistTxGraphSets ==
    \E changeset \in SetChangeSets :
        Persist("persist_tx_graph", changeset,
                persist_tx_graph(db, wallet_name, changeset),
                WithTxGraphKeys(hist, changeset))

PersistIndexer ==
    \E changeset \in IndexerChangeSets :
        Persist("persist_indexer", changeset,
                persist_indexer(db, wallet_name, changeset),
                WithIndexerKeys(hist, changeset))

PersistIndexerSets ==
    \E changeset \in SpkChangeSets :
        Persist("persist_indexer", changeset,
                persist_indexer(db, wallet_name, changeset),
                WithIndexerKeys(hist, changeset))

PersistWallet ==
    \E changeset \in WalletChangeSets :
        Persist("persist_wallet", changeset,
                persist_wallet(db, wallet_name, changeset),
                WithBlocks(WithIndexerKeys(WithTxGraphKeys(hist, changeset.tx_graph),
                                           changeset.indexer),
                           changeset.local_chain))

PersistNetwork ==
    \E network \in NetworkOptions :
        Persist("persist_network", network,
                persist_network(db, wallet_name, network), hist)

PersistKeychains ==
    \E changeset \in KeychainChangeSets :
        Persist("persist_keychains", changeset,
                persist_keychains(db, wallet_name, changeset), hist)

PersistLocalChain ==
    \E changeset \in LocalChainChangeSets :
        Persist("persist_local_chain", changeset,
                persist_local_chain(db, wallet_name, changeset),
                WithBlocks(hist, changeset))

ReadNetwork == Read("read_network", read_network(db, wallet_name, None))

ReadKeychains == Read("read_keychains", read_keychains(db, wallet_name, Empty))

ReadLocalChain ==
    Read("read_local_chain", read_local_chain(db, wallet_name, EmptyLocalChain))

ReadTxGraph == Read("read_tx_graph", read_tx_graph(db, wallet_name, EmptyTxGraph))

ReadIndexer == Read("read_indexer", read_indexer(db, wallet_name, EmptyIndexer))

ReadWallet == Read("read_wallet", read_wallet(db, wallet_name, EmptyWallet))

\* the tx graph alone
Next ==
    \/ CreateTxGraphTables
    \/ PersistTxGraph
    \/ ReadTxGraph

Spec == Init /\ [][Next]_vars

\* the indexer alone
NextIndexer ==
    \/ CreateIndexerTables
    \/ PersistIndexer
    \/ ReadIndexer

SpecIndexer == Init /\ [][NextIndexer]_vars

\* the set-valued fields of the tx graph and the indexer
NextSets ==
    \/ CreateTables
    \/ PersistTxGraphSets
    \/ PersistIndexerSets
    \/ ReadTxGraph
    \/ ReadIndexer

SpecSets == Init /\ [][NextSets]_vars

\* the network, the keychains and the local chain
NextParts ==
    \/ CreateTables
    \/ PersistNetwork
    \/ PersistKeychains
    \/ PersistLocalChain
    \/ ReadNetwork
    \/ ReadKeychains
    \/ ReadLocalChain

SpecParts == Init /\ [][NextParts]_vars

\* two Stores of two wallet names on one database
CreateTablesAs ==
    \E wn \in WalletNames :
        /\ db' = create_tables(db, wn).db
        /\ op' = "create_tables"
        /\ arg' = NoArg
        /\ res' = create_tables(db, wn).st
        /\ view' = NoView
        /\ store' = wn
        /\ repeat' = FALSE
        /\ UNCHANGED <<ncalls, hist, prior, reader, writers>>

PersistWalletAs ==
    \E wn \in WalletNames, changeset \in SinglePartChangeSets :
        LET r == persist_wallet(db, wn, changeset)
        IN /\ ncalls < MaxCalls
           /\ db' = r.db
           /\ op' = "persist_wallet"
           /\ arg' = changeset
           /\ res' = r.st
           /\ view' = NoView
           /\ store' = wn
           /\ ncalls' = ncalls + 1
           /\ repeat' = (op = "persist_wallet" /\ arg = changeset /\ store = wn)
           /\ UNCHANGED <<hist, prior, reader, writers>>

ReadWalletAs ==
    \E wn \in WalletNames :
        /\ view' = read_wallet(db, wn, EmptyWallet)
        /\ op' = "read_wallet"
        /\ arg' = NoArg
        /\ res' = read_wallet(db, wn, EmptyWallet).st
        /\ store' = wn
        /\ repeat' = FALSE
        /\ UNCHANGED <<db, ncalls, hist, prior, reader, writers>>

NextMulti ==
    \/ CreateTablesAs
    \/ PersistWalletAs
    \/ ReadWalletAs

SpecMulti == Init /\ [][NextMulti]_vars

(***************************************************************************)
(* A thread that reads while another thread commits write transactions.    *)
(***************************************************************************)
Running == pc \notin {"idle", "done"}

\* the step after the step at index i of a sequence of steps
StepAfter(steps, i) == IF i = Len(steps) THEN "done" ELSE steps[i + 1]

IndexOf(steps, step) == CHOOSE i \in 1 .. Len(steps) : steps[i] = step

\* a write transaction of the writing thread commits
Commit(name, changeset, r) ==
    /\ ncalls < MaxCalls
    /\ db' = r.db
    /\ op' = name
    /\ arg' = changeset
    /\ res' = r.st
    /\ ncalls' = ncalls + 1
    /\ seen' = IF Running THEN seen \cup {r.db} ELSE seen
    /\ repeat' = FALSE
    /\ UNCHANGED <<view, hist, store, prior, pc, rtx, writers>>

\* the writing thread creates tables
CommitCreate(name, r) ==
    /\ db' = r.db
    /\ op' = name
    /\ arg' = NoArg
    /\ res' = r.st
    /\ seen' = IF Running THEN seen \cup {r.db} ELSE seen
    /\ repeat' = FALSE
    /\ UNCHANGED <<view, ncalls, hist, store, prior, pc, rtx, writers>>

\* the reading thread finishes a step with result r
Step(name, steps, r) ==
    /\ view' = r
    /\ pc' = IF r.st = "ok" THEN StepAfter(steps, IndexOf(steps, pc)) ELSE "done"
    /\ IF pc' = "done"
       THEN op' = name /\ arg' = NoArg /\ res' = r.st
       ELSE UNCHANGED <<op, arg, res>>
    /\ repeat' = FALSE
    /\ UNCHANGED <<db, ncalls, hist, store, prior, rtx, seen, writers>>

CommitTxGraph ==
    \E changeset \in ConcurrentChangeSets :
        Commit("persist_tx_graph", changeset, persist_tx_graph(db, wallet_name, changeset))

CommitCreateTxGraphTables ==
    CommitCreate("create_tx_graph_tables", create_tx_graph_tables(db, wallet_name))

CommitCreateTables == CommitCreate("create_tables", create_tables(db, wallet_name))

CommitNetwork ==
    \E network \in NetworkOptions :
        Commit("persist_network", network, persist_network(db, wallet_name, network))

CommitKeychains ==
    \E changeset \in KeychainChangeSets :
        Commit("persist_keychains", changeset,
               persist_keychains(db, wallet_name, changeset))

\* read_tx_graph begins its read transaction
BeginReadTxGraph ==
    /\ pc = "idle"
    /\ pc' = TxGraphSteps[1]
    /\ rtx' = db
    /\ seen' = {db}
    /\ view' = [st |-> "ok", cs |-> EmptyTxGraph]
    /\ repeat' = FALSE
    /\ UNCHANGED <<db, op, arg, res, ncalls, hist, store, prior, writers>>

\* read_tx_graph calls its next read function
StepReadTxGraph ==
    /\ pc \in {TxGraphSteps[i] : i \in 1 .. Len(TxGraphSteps)}
    /\ Step("read_tx_graph", TxGraphSteps,
            read_tx_graph_step(rtx, db, wallet_name, view.cs, pc))

\* read_wallet is called
BeginReadWallet ==
    /\ pc = "idle"
    /\ pc' = WalletSteps[1]
    /\ seen' = {db}
    /\ view' = [st |-> "ok", cs |-> EmptyWallet]
    /\ repeat' = FALSE
    /\ UNCHANGED <<db, op, arg, res, ncalls, hist, store, prior, rtx, writers>>

\* read_wallet calls its next read operation
StepReadWallet ==
    /\ pc \in {WalletSteps[i] : i \in 1 .. Len(WalletSteps)}
    /\ Step("read_wallet", WalletSteps,
            read_wallet_step(db, wallet_name, view.cs, pc))

\* read_tx_graph while persist_tx_graph calls commit
NextSnapshot ==
    \/ CommitCreateTxGraphTables
    \/ CommitTxGraph
    \/ BeginReadTxGraph
    \/ StepReadTxGraph

SpecSnapshot == Init /\ [][NextSnapshot]_vars

\* read_wallet while persist_network and persist_keychains calls commit
NextTorn ==
    \/ CommitCreateTables
    \/ CommitNetwork
    \/ CommitKeychains
    \/ BeginReadWallet
    \/ StepReadWallet

SpecTorn == Init /\ [][NextTorn]_vars

\* the rows a database file may hold when Store::new receives it: none, one
\* that this crate writes, or one whose value does not decode
OptionalRows(key, values) == {Empty} \cup {One(key, v) : v \in values}

\* the databases handed to Store::new: the wallet's tables with such rows in
\* the network, keychain and transaction tables
StoredDatabases ==
    {[create_tables(Empty, wallet_name).db EXCEPT
         ![NETWORK] = n,
         ![keychain_table_name(wallet_name)] = InsertAll(k0, k1),
         ![txs_table_name(wallet_name)] = t] :
        n \in OptionalRows(wallet_name, {"bitcoin", "regtest", "mainnet?"}),
        k0 \in OptionalRows(0, {descriptor_to_string(DescA), "tr("}),
        k1 \in OptionalRows(1, {descriptor_to_string(DescB), "tr("}),
        t \in OptionalRows(compute_txid(TheTx), {Serialize(TheTx), <<"eof", TheTx>>})}

\* Store::new on a database file that exists
InitStored ==
    /\ db \in StoredDatabases
    /\ op = "new"
    /\ arg = NoArg
    /\ res = "ok"
    /\ view = NoView
    /\ ncalls = 0
    /\ hist = NoKeys
    /\ store = wallet_name
    /\ repeat = FALSE
    /\ prior = Empty
    /\ pc = "idle"
    /\ rtx = Empty
    /\ seen = {}
    /\ writers = [thread \in Threads |-> IdleWriter]

\* the reads of a database file that exists
NextDecode ==
    \/ ReadNetwork
    \/ ReadKeychains
    \/ ReadTxGraph

SpecDecode == InitStored /\ [][NextDecode]_vars

\* WalletPersister::initialize
Initialize ==
    LET r == initialize(db, wallet_name)
    IN /\ db' = r.db
       /\ op' = "initialize"
       /\ arg' = NoArg
       /\ res' = r.st
       /\ view' = [st |-> r.st, cs |-> r.cs]
       /\ repeat' = (op = "initialize")
       /\ UNCHANGED <<ncalls, hist, store, prior, reader, writers>>

\* the tx-graph changesets of outputs and dependents: no transaction or one,
\* no output or one, no anchor or one, no last_seen or one
OutputChangeSets ==
    {[EmptyTxGraph EXCEPT !.txs = s, !.txouts = m, !.anchors = A, !.last_seen = l] :
        s \in {{}, {TheTx}},
        m \in {Empty} \cup {One(o, CHOOSE x \in TxOuts : x.value = MaxVal) : o \in OutPoints},
        A \in {{}} \cup {{<<TheAnchor, t>>} : t \in Txids},
        l \in {Empty} \cup {One(t, MaxVal) : t \in Txids}}

PersistTxGraphOutputs ==
    \E changeset \in OutputChangeSets :
        Persist("persist_tx_graph", changeset,
                persist_tx_graph(db, wallet_name, changeset),
                WithTxGraphKeys(hist, changeset))

\* the tx graph, with outputs of transactions that are not stored
NextOutputs ==
    \/ CreateTxGraphTables
    \/ PersistTxGraphOutputs
    \/ ReadTxGraph

SpecOutputs == Init /\ [][NextOutputs]_vars

\* the changesets a caller hands to a read operation with entries in them
CallerTxGraphs ==
    {[txs |-> {OtherTx},
      txouts |-> One(o, CHOOSE x \in TxOuts : x.value = 0),
      anchors |-> {<<EarlyAnchor, t>>},
      last_seen |-> One(t, 0), last_evicted |-> One(t, 0), first_seen |-> One(t, 0)] :
        t \in Txids, o \in OutPoints}

CallerIndexers ==
    {[last_revealed |-> One(descriptor_id(d), 0),
      spk_cache |-> One(descriptor_id(d), One(i, <<MaxVal>>))] :
        d \in Descriptors, i \in {0, 1}}

CallerLocalChains ==
    {[blocks |-> One(h, b)] : h \in {0, 1}, b \in {None, Some(<<8>>)}}

CallerKeychains == {One(label, DescB) : label \in {0, 1}}

\* persist_wallet of one part, or of an output alone
PersistWalletPart ==
    \E changeset \in SinglePartChangeSets
                      \cup {WalletOf({<<"tx_graph",
                                        [EmptyTxGraph EXCEPT
                                             !.txouts = One(o, CHOOSE x \in TxOuts :
                                                                   x.value = MaxVal)]>>}) :
                               o \in OutPoints} :
        Persist("persist_wallet", changeset, persist_wallet(db, wallet_name, changeset), hist)

\* a read operation into the changeset of the caller
ReadInto(name, caller, r) ==
    /\ view' = r
    /\ op' = name
    /\ arg' = caller
    /\ res' = r.st
    /\ repeat' = FALSE
    /\ UNCHANGED <<db, ncalls, hist, store, prior, reader, writers>>

ReadTxGraphInto ==
    \E caller \in CallerTxGraphs :
        ReadInto("read_tx_graph", caller, read_tx_graph(db, wallet_name, caller))

ReadIndexerInto ==
    \E caller \in CallerIndexers :
        ReadInto("read_indexer", caller, read_indexer(db, wallet_name, caller))

ReadLocalChainInto ==
    \E caller \in CallerLocalChains :
        ReadInto("read_local_chain", caller, read_local_chain(db, wallet_name, caller))

ReadKeychainsInto ==
    \E caller \in CallerKeychains :
        ReadInto("read_keychains", caller, read_keychains(db, wallet_name, caller))

\* reads into changesets that are not empty
NextMerge ==
    \/ CreateTables
    \/ PersistWalletPart
    \/ ReadTxGraphInto
    \/ ReadIndexerInto
    \/ ReadLocalChainInto
    \/ ReadKeychainsInto

SpecMerge == Init /\ [][NextMerge]_vars

\* persist_wallet of a changeset of descriptors alone
PersistWalletDescriptors ==
    \E changeset \in {WalletOf({p}) : p \in {x \in WalletParts : x[1] = "descs"}} :
        Persist("persist_wallet", changeset, persist_wallet(db, wallet_name, changeset), hist)

\* the descriptors, persisted by persist_wallet or label by label by
\* persist_keychains, and read by read_wallet
NextDescriptors ==
    \/ CreateTables
    \/ PersistWalletDescriptors
    \/ PersistKeychains
    \/ ReadWallet

SpecDescriptors == Init /\ [][NextDescriptors]_vars

\* persist_wallet, called on the database that the variable prior keeps
PersistWalletInOrder ==
    \E changeset \in OrderChangeSets :
        LET r == persist_wallet(db, wallet_name, changeset)
        IN /\ ncalls < MaxCalls
           /\ db' = r.db
           /\ prior' = db
           /\ op' = "persist_wallet"
           /\ arg' = changeset
           /\ res' = r.st
           /\ hist' = IF r.st = "ok"
                      THEN WithIndexerKeys(WithTxGraphKeys(hist, changeset.tx_graph),
                                           changeset.indexer)
                      ELSE hist
           /\ view' = NoView
           /\ ncalls' = ncalls + 1
           /\ repeat' = (op = "persist_wallet" /\ arg = changeset)
           /\ UNCHANGED <<store, reader, writers>>

\* two persist_wallet calls in one order, to compare with the other order
NextOrder ==
    \/ CreateTables
    \/ PersistWalletInOrder
    \/ ReadWallet

SpecOrder == Init /\ [][NextOrder]_vars

\* the wallet
NextWallet ==
    \/ CreateTables
    \/ PersistWallet
    \/ ReadWallet
    \/ Initialize

SpecWallet == Init /\ [][NextWallet]_vars

(***************************************************************************)
(* The anchor key and the two anchor variants, over the whole range of     *)
(* u32 heights. A height is kept as its two 16-bit halves, hi * 65536 +    *)
(* lo, so that u32::MAX is a value the model holds.                        *)
(***************************************************************************)
U32(hi, lo) == [hi |-> hi, lo |-> lo]
U32_MAX == U32(65535, 65535)

\* the numeric order of u32
U32Less(x, y) == x.hi < y.hi \/ (x.hi = y.hi /\ x.lo < y.lo)

\* u32::to_le_bytes and u32::from_le_bytes on the two halves
u32_to_le_bytes(n) == <<n.lo % 256, n.lo \div 256, n.hi % 256, n.hi \div 256>>
\* a decoding that reads the two low bytes only
u32_from_le_bytes_LowHalf(b) == U32(0, b[1] + 256 * b[2])
u32_from_le_bytes(b) == U32(b[3] + 256 * b[4], b[1] + 256 * b[2])

\* heights at the byte boundaries, and the block ids of these heights
BoundaryHeights ==
    {U32(0, 0), U32(0, 1), U32(0, 255), U32(0, 256), U32(0, 65535), U32(1, 0), U32_MAX}
BoundaryBlockIds == [height : BoundaryHeights, hash : BlockHashes]

\* the packed block id of an anchor key, as persist_anchors builds it and as
\* read_anchors takes it apart
pack_block_id(id) == u32_to_le_bytes(id.height) \o id.hash
unpack_block_id(bytes) ==
    [height |-> u32_from_le_bytes(SubSeq(bytes, 1, 4)), hash |-> SubSeq(bytes, 5, Len(bytes))]

\* <[u8; 36] as Key>::compare: the order of the bytes
compare(data1, data2) ==
    IF data1 = data2 THEN "Equal"
    ELSE IF BytesLess(data1, data2) THEN "Less" ELSE "Greater"

\* the two implementations of AnchorWithMetaData
AnchorVariants == {"ConfirmationBlockTime", "BlockId"}
AnchorsOf(variant) ==
    IF variant = "BlockId" THEN BoundaryBlockIds
    ELSE [block_id : BoundaryBlockIds, confirmation_time : Vals]
anchor_block_of(variant, a) == IF variant = "BlockId" THEN a ELSE anchor_block(a)
metadata_of(variant, a) == IF variant = "BlockId" THEN None ELSE metadata(a)
\* a from_id that leaves the metadata out
from_id_of_Default(variant, id, meta) ==
    IF variant = "BlockId" THEN id ELSE from_id(id, 0)
from_id_of(variant, id, meta) == IF variant = "BlockId" THEN id ELSE from_id(id, meta)

\* the order of BTreeSet<(A, Txid)>: block id (height, then hash), then
\* confirmation time, then txid
BoundaryEntryLess(variant, x, y) ==
    LET bx == anchor_block_of(variant, x[1])
        by == anchor_block_of(variant, y[1])
    IN IF bx.height # by.height THEN U32Less(bx.height, by.height)
       ELSE IF bx.hash # by.hash THEN BytesLess(bx.hash, by.hash)
       ELSE IF variant # "BlockId" /\ metadata(x[1]) # metadata(y[1])
            THEN metadata(x[1]) < metadata(y[1])
       ELSE TxidLess(x[2], y[2])

\* the insert loop of persist_anchors and the loop of read_anchors, for
\* either variant
RECURSIVE insert_anchors(_, _, _)
insert_anchors(variant, table, todo) ==
    IF todo = {} THEN table
    ELSE LET e == CHOOSE x \in todo : \A y \in todo : ~BoundaryEntryLess(variant, y, x)
         IN insert_anchors(
                variant,
                Insert(table, <<e[2], pack_block_id(anchor_block_of(variant, e[1]))>>,
                       metadata_of(variant, e[1])),
                todo \ {e})

load_anchors(variant, table) ==
    {<<from_id_of(variant, unpack_block_id(k[2]), table[k]), k[1]>> : k \in DOMAIN table}

\* the sets of one or two anchors of a transaction
AnchorSets(variant) ==
    {{<<a, compute_txid(TheTx)>>, <<b, compute_txid(TheTx)>>} :
        a \in AnchorsOf(variant), b \in AnchorsOf(variant)}

\* what a step that computes a function leaves as it is
unchanged_by_codec == <<db, res, ncalls, hist, store, repeat, prior, reader, writers>>

\* the key of a block id is packed and unpacked
PackBlockId ==
    \E id \in BoundaryBlockIds :
        /\ op' = "pack_block_id"
        /\ arg' = id
        /\ view' = [bytes |-> pack_block_id(id),
                    block_id |-> unpack_block_id(pack_block_id(id))]
        /\ UNCHANGED unchanged_by_codec

\* the keys of two block ids are compared
CompareBlockIds ==
    \E id1 \in BoundaryBlockIds, id2 \in BoundaryBlockIds :
        /\ op' = "compare"
        /\ arg' = <<id1, id2>>
        /\ view' = [ord |-> compare(pack_block_id(id1), pack_block_id(id2))]
        /\ UNCHANGED unchanged_by_codec

\* an anchor is rebuilt from its block id and its metadata
RebuildAnchor ==
    \E variant \in AnchorVariants :
        \E a \in AnchorsOf(variant) :
            /\ op' = "from_id"
            /\ arg' = [variant |-> variant, anchor |-> a]
            /\ view' = [anchor |-> from_id_of(variant, anchor_block_of(variant, a),
                                              metadata_of(variant, a))]
            /\ UNCHANGED unchanged_by_codec

\* a set of anchors is written to an empty anchors table and read back
StoreAnchors ==
    \E variant \in AnchorVariants :
        \E anchors \in AnchorSets(variant) :
            /\ op' = "anchors"
            /\ arg' = [variant |-> variant, anchors |-> anchors]
            /\ view' = [table |-> insert_anchors(variant, Empty, anchors),
                        anchors |-> load_anchors(variant,
                                                 insert_anchors(variant, Empty, anchors))]
            /\ UNCHANGED unchanged_by_codec

NextCodec ==
    \/ PackBlockId
    \/ CompareBlockIds
    \/ RebuildAnchor
    \/ StoreAnchors

SpecCodec == Init /\ [][NextCodec]_vars

(***************************************************************************)
(* The wrapper types of wrapper.rs: redb::Value (fixed_width, as_bytes)    *)
(* and redb::Key (compare). A hash is 32 bytes, of which the model varies  *)
(* the first.                                                              *)
(***************************************************************************)
Wrappers ==
    {"ScriptWrapper", "TransactionWrapper", "BlockHashWrapper", "BlockIdWrapper",
     "DIDWrapper", "TxidWrapper", "AmountWrapper"}

\* the wrappers that implement redb::Key
KeyWrappers ==
    {"ScriptWrapper", "TransactionWrapper", "BlockIdWrapper", "DIDWrapper", "TxidWrapper"}

\* Value::fixed_width
fixed_width(wrapper) ==
    CASE wrapper \in {"ScriptWrapper", "TransactionWrapper"} -> None
      [] wrapper \in {"BlockHashWrapper", "DIDWrapper", "TxidWrapper"} -> Some(32)
      [] wrapper = "BlockIdWrapper" -> Some(36)
      [] wrapper = "AmountWrapper" -> Some(32)

\* Hash::to_byte_array: [u8; 32]
to_byte_array(h) == [i \in 1 .. 32 |-> IF i = 1 THEN h ELSE 0]

\* u64::to_le_bytes: [u8; 8], of an amount below 2^24
u64_to_le_bytes(n) ==
    <<n % 256, (n \div 256) % 256, (n \div 65536) % 256, 0, 0, 0, 0, 0>>

\* the values of each wrapper: scripts with the empty script, transactions
\* of two versions, hashes, block ids at boundary heights, amounts
WrapperValues(wrapper) ==
    CASE wrapper = "ScriptWrapper" -> {<< >>, <<0>>, <<0, 1>>, <<1>>, <<1, 0>>}
      [] wrapper = "TransactionWrapper" -> [version : {1, 2}, amount : {1, 2}]
      [] wrapper \in {"BlockHashWrapper", "DIDWrapper", "TxidWrapper"} -> {7, 8}
      [] wrapper = "BlockIdWrapper" ->
             [height : {U32(0, 1), U32(0, 256), U32_MAX}, hash : {7, 8}]
      [] wrapper = "AmountWrapper" -> {0, 1, 255, 256, 65535, 65536}

\* Value::as_bytes
as_bytes(wrapper, value) ==
    CASE wrapper = "ScriptWrapper" -> value
      [] wrapper = "TransactionWrapper" -> Serialize(value)
      [] wrapper \in {"BlockHashWrapper", "DIDWrapper", "TxidWrapper"} ->
             to_byte_array(value)
      [] wrapper = "BlockIdWrapper" ->
             u32_to_le_bytes(value.height) \o to_byte_array(value.hash)
      [] wrapper = "AmountWrapper" -> u64_to_le_bytes(value)

\* Ord::cmp of two integers
cmp(x, y) == IF x = y THEN "Equal" ELSE IF x < y THEN "Less" ELSE "Greater"

\* Key::compare: ScriptWrapper indexes the first byte of either key, which
\* panics on an empty one; TransactionWrapper decodes both and compares the
\* versions; the others compare the bytes
key_compare(wrapper, data1, data2) ==
    CASE wrapper = "ScriptWrapper" ->
             IF Len(data1) = 0 \/ Len(data2) = 0 THEN "panic"
             ELSE cmp(data1[1], data2[1])
      [] wrapper = "TransactionWrapper" ->
             cmp(Deserialize(data1).version, Deserialize(data2).version)
      [] OTHER -> compare(data1, data2)

\* a value is encoded
AsBytes ==
    \E wrapper \in Wrappers :
        \E value \in WrapperValues(wrapper) :
            /\ op' = "as_bytes"
            /\ arg' = [wrapper |-> wrapper, value |-> value]
            /\ view' = [fixed_width |-> fixed_width(wrapper),
                        bytes |-> as_bytes(wrapper, value)]
            /\ UNCHANGED unchanged_by_codec

\* the encodings of two keys are compared
CompareKeys ==
    \E wrapper \in KeyWrappers :
        \E k1 \in WrapperValues(wrapper), k2 \in WrapperValues(wrapper) :
            /\ op' = "key_compare"
            /\ arg' = [wrapper |-> wrapper, data1 |-> as_bytes(wrapper, k1),
                       data2 |-> as_bytes(wrapper, k2)]
            /\ view' = [ord |-> key_compare(wrapper, as_bytes(wrapper, k1),
                                            as_bytes(wrapper, k2))]
            /\ UNCHANGED unchanged_by_codec

NextWrappers ==
    \/ AsBytes
    \/ CompareKeys

SpecWrappers == Init /\ [][NextWrappers]_vars

(***************************************************************************)
(* Writing threads. Each runs persist_wallet one step at a time:           *)
(* persist_network, persist_keychains, persist_local_chain and             *)
(* persist_indexer each begin and commit a write transaction of their own; *)
(* persist_tx_graph begins its write transaction, then its read            *)
(* transaction, writes the transactions and the outputs, checks and writes *)
(* the anchors and the flags, and commits. db.begin_write() blocks while   *)
(* another write transaction is open.                                      *)
(***************************************************************************)
WalletWriteSteps == <<"network", "keychains", "local_chain", "indexer">>

\* a persist_tx_graph that checks and writes the anchors before the roots
TxGraphWriteSteps_AnchorsFirst ==
    <<"begin_write", "begin_read", "anchors", "txs", "txouts",
      "last_seen", "last_evicted", "first_seen", "commit">>

\* a persist_tx_graph that takes its snapshot before its write transaction
TxGraphWriteSteps_ReadFirst ==
    <<"begin_read", "begin_write", "txs", "txouts", "anchors",
      "last_seen", "last_evicted", "first_seen", "commit">>

TxGraphWriteSteps ==
    <<"begin_write", "begin_read", "txs", "txouts", "anchors",
      "last_seen", "last_evicted", "first_seen", "commit">>

\* a persist_wallet that calls persist_indexer while the write transaction of
\* persist_tx_graph is open
WriteSteps_IndexerInside ==
    <<"network", "keychains", "local_chain", "begin_write", "begin_read", "txs",
      "txouts", "indexer", "anchors", "last_seen", "last_evicted", "first_seen",
      "commit">>

WriteSteps == WalletWriteSteps \o TxGraphWriteSteps

\* the steps that begin a write transaction
BeginsWrite == {"network", "keychains", "local_chain", "indexer", "begin_write"}

\* the steps that check txids with the guard
GuardSteps == {"anchors", "last_seen", "last_evicted", "first_seen"}

\* no write transaction is open
LockFree == \A thread \in Threads : ~writers[thread].w.some

\* what a step of a guarded loop leaves: the write transaction is dropped
\* when the loop fails
Guarded(d, th, r) ==
    [st |-> r.st, db |-> d, w |-> IF r.st = "ok" THEN Some(r.w) ELSE None,
     read_tx |-> th.read_tx]

\* one step of persist_wallet by a thread in state th, on the committed
\* database d
write_step(step, d, th, wn) ==
    LET changeset == th.changeset
        g == changeset.tx_graph
        committed(r) == [st |-> r.st, db |-> r.db, w |-> None, read_tx |-> th.read_tx]
        written(w) == [st |-> "ok", db |-> d, w |-> Some(w), read_tx |-> th.read_tx]
    IN CASE step = "network" -> committed(persist_network(d, wn, changeset.network))
         [] step = "keychains" ->
                committed(persist_keychains(d, wn, desc_changeset_of(changeset)))
         [] step = "local_chain" ->
                committed(persist_local_chain(d, wn, changeset.local_chain))
         [] step = "indexer" -> committed(persist_indexer(d, wn, changeset.indexer))
         [] step = "begin_write" -> written(d)
         [] step = "begin_read" -> [st |-> "ok", db |-> d, w |-> th.w, read_tx |-> d]
         [] step = "txs" -> written(persist_txs(th.w.val, wn, g.txs))
         [] step = "txouts" -> written(persist_txouts(th.w.val, wn, g.txouts))
         [] step = "anchors" ->
                Guarded(d, th, persist_anchors(th.w.val, th.read_tx, wn, g.anchors, g.txs))
         [] step = "last_seen" ->
                Guarded(d, th,
                        persist_last_seen(th.w.val, th.read_tx, wn, g.last_seen, g.txs))
         [] step = "last_evicted" ->
                Guarded(d, th,
                        persist_last_evicted(th.w.val, th.read_tx, wn, g.last_evicted,
                                             g.txs))
         [] step = "first_seen" ->
                Guarded(d, th,
                        persist_first_seen(th.w.val, th.read_tx, wn, g.first_seen, g.txs))
         [] step = "commit" -> [st |-> "ok", db |-> th.w.val, w |-> None,
                                read_tx |-> th.read_tx]

\* the changesets of the writing threads: a transaction alone; an anchor and
\* a last_seen of that transaction without it; every root with an anchor and
\* the flags; an anchor of a transaction that no thread writes
WriterChangeSets ==
    {WalletOf({<<"tx_graph", [EmptyTxGraph EXCEPT !.txs = {TheTx}]>>}),
     WalletOf({<<"tx_graph",
                 [EmptyTxGraph EXCEPT
                      !.anchors = {<<TheAnchor, compute_txid(TheTx)>>},
                      !.last_seen = One(compute_txid(TheTx), MaxVal)]>>}),
     WalletOf({<<"network", Some("Regtest")>>,
               <<"descs", <<Some(DescA), None>>>>,
               <<"local_chain", [blocks |-> One(0, Some(<<7>>))]>>,
               <<"tx_graph",
                 [FullFor(compute_txid(TheTx), TheAnchor) EXCEPT
                      !.txs = {TheTx},
                      !.txouts = One([txid |-> compute_txid(TheTx), vout |-> 0],
                                     CHOOSE x \in TxOuts : x.value = MaxVal)]>>}),
     WalletOf({<<"tx_graph",
                 [EmptyTxGraph EXCEPT
                      !.anchors = {<<TheAnchor, compute_txid(OtherTx)>>}]>>})}

\* Store::create_tables, when no write transaction is open
WritersCreateTables ==
    /\ LockFree
    /\ CommitCreateTables

\* a thread calls persist_wallet
WriterCall(thread) ==
    /\ ncalls < MaxCalls
    /\ writers[thread].pc \in {"idle", "done"}
    /\ \E changeset \in WriterChangeSets :
          writers' = [writers EXCEPT
                          ![thread] = [IdleWriter EXCEPT !.pc = WriteSteps[1],
                                                         !.changeset = changeset]]
    /\ ncalls' = ncalls + 1
    /\ UNCHANGED <<db, op, arg, res, view, hist, store, repeat, prior, reader>>

\* a thread runs the next step of its call; a thread that waits in
\* begin_write while another commits has been overtaken
WriterStep(thread) ==
    LET th == writers[thread]
        step == th.pc
    IN /\ step \in {WriteSteps[i] : i \in 1 .. Len(WriteSteps)}
       /\ step \in BeginsWrite => LockFree
       /\ LET r == write_step(step, db, th, wallet_name)
              next == IF r.st = "ok"
                      THEN StepAfter(WriteSteps, IndexOf(WriteSteps, step))
                      ELSE "done"
          IN /\ db' = r.db
             /\ writers' =
                   [u \in Threads |->
                       IF u = thread
                       THEN [th EXCEPT !.pc = next, !.w = r.w, !.read_tx = r.read_tx,
                                       !.st = r.st]
                       ELSE IF step = "commit" /\ writers[u].pc = "begin_write"
                            THEN [writers[u] EXCEPT !.overtaken = TRUE]
                            ELSE writers[u]]
             /\ IF next = "done"
                THEN op' = "persist_wallet" /\ arg' = th.changeset /\ res' = r.st
                ELSE UNCHANGED <<op, arg, res>>
       /\ repeat' = FALSE
       /\ UNCHANGED <<view, ncalls, hist, store, prior, reader>>

NextWriters ==
    \/ WritersCreateTables
    \/ \E thread \in Threads : WriterCall(thread)
    \/ \E thread \in Threads : WriterStep(thread)

SpecWriters == Init /\ [][NextWriters]_vars

\* the threads are scheduled: a thread whose next step can run runs it, and
\* a thread blocked in begin_write runs once no write transaction is open
SpecWritersFair ==
    SpecWriters /\ \A thread \in Threads : WF_vars(WriterStep(thread))

(***************************************************************************)
(* What the properties speak about.                                        *)
(***************************************************************************)
\* the rows of a table of a database, none when the table does not exist
Rows(d, name) == IF Has(d, name) THEN d[name] ELSE Empty

\* what read_tx_graph, read_indexer and read_wallet return from a database
TxGraphOf(d) == read_tx_graph(d, wallet_name, EmptyTxGraph)
IndexerOf(d) == read_indexer(d, wallet_name, EmptyIndexer)
WalletIn(d) == read_wallet(d, wallet_name, EmptyWallet)

\* the txids the anchors and the observation flags of a changeset refer to
Referenced(changeset) ==
    {e[2] : e \in changeset.anchors} \cup DOMAIN changeset.last_seen
    \cup DOMAIN changeset.last_evicted \cup DOMAIN changeset.first_seen

\* those of them that are neither committed in d nor among the changeset's txs
Dangling(d, changeset) ==
    {t \in Referenced(changeset) :
        ~Has(Rows(d, txs_table_name(wallet_name)), t) /\ t \notin TxKeys(changeset)}

\* the txids that key a row of the anchors table or of a flag table
DependentTxids(d) ==
    {k[1] : k \in DOMAIN Rows(d, anchors_table_name(wallet_name))}
    \cup DOMAIN Rows(d, last_seen_table_name(wallet_name))
    \cup DOMAIN Rows(d, last_evicted_table_name(wallet_name))
    \cup DOMAIN Rows(d, first_seen_table_name(wallet_name))

MinOf(a, b) == IF a <= b THEN a ELSE b
MaxOf(a, b) == IF a >= b THEN a ELSE b

(***************************************************************************)
(* Properties of persist_tx_graph.                                         *)
(***************************************************************************)
\* C2: persist_tx_graph, given an anchor or a last_seen, last_evicted or
\* first_seen entry whose txid is neither in the committed transactions
\* table nor among the changeset's txs, returns the typed error
\* DanglingReferenceError to the caller and never aborts the process.
\* (Stated for calls made once the tx-graph tables exist.)
C2_TypedError ==
    [][(/\ op' = "persist_tx_graph"
        /\ Has(db, txs_table_name(wallet_name))
        /\ Dangling(db, arg') # {})
       => res' = "DanglingReferenceError"]_vars

\* C3: when persist_tx_graph rejects a dangling anchor or observation flag,
\* the tx-graph tables are exactly as before the call, so that a
\* read_tx_graph after it returns what a read_tx_graph before it returned,
\* with none of the changeset's transactions, outputs, anchors or flags.
C3_RejectionLeavesNoTrace ==
    [][(op' = "persist_tx_graph" /\ res' = "panic")
       => /\ db' = db
          /\ TxGraphOf(db') = TxGraphOf(db)]_vars

\* a rejected changeset that held a transaction and an anchor of it, both
\* processed before the offending record, and the transaction is not stored
C3_Witness ==
    /\ op = "persist_tx_graph"
    /\ res = "panic"
    /\ arg.txs # {}
    /\ \E e \in arg.anchors : e[2] \in TxKeys(arg)
    /\ Dangling(db, arg) # {}
    /\ TxKeys(arg) \cap TxKeys(TxGraphOf(db).cs) = {}

\* C4: after any sequence of persist_tx_graph calls, successful or rejected,
\* every txid that keys a row of the anchors, last_seen, last_evicted or
\* first_seen table also keys a row of the transactions table.
C4_ReferentialIntegrity ==
    DependentTxids(db) \subseteq DOMAIN Rows(db, txs_table_name(wallet_name))

\* rows in the anchors table and in the three flag tables, after a rejection
C4_Witness ==
    /\ op = "persist_tx_graph"
    /\ res = "panic"
    /\ Rows(db, anchors_table_name(wallet_name)) # Empty
    /\ Rows(db, last_seen_table_name(wallet_name)) # Empty
    /\ Rows(db, last_evicted_table_name(wallet_name)) # Empty
    /\ Rows(db, first_seen_table_name(wallet_name)) # Empty

\* C5: the guard accepts an anchor or observation flag exactly when its
\* transaction is already in the committed transactions table or is one of
\* the transactions of the same changeset; an accepted record is inserted
\* (also when the changeset's txs is empty), and a record whose transaction
\* is in neither place is not inserted.
C5_GuardExact ==
    [][(op' = "persist_tx_graph" /\ Has(db, txs_table_name(wallet_name)))
       => LET committed == DOMAIN db[txs_table_name(wallet_name)]
              accepted == \A t \in Referenced(arg') :
                              t \in committed \/ t \in TxKeys(arg')
              after == TxGraphOf(db').cs
          IN /\ (res' = "ok") <=> accepted
             /\ accepted =>
                  /\ \A e \in arg'.anchors :
                        \E x \in after.anchors :
                            x[2] = e[2] /\ anchor_block(x[1]) = anchor_block(e[1])
                  /\ \A t \in DOMAIN arg'.last_seen :
                        Has(after.last_seen, t) /\ after.last_seen[t] = arg'.last_seen[t]
                  /\ \A t \in DOMAIN arg'.last_evicted :
                        /\ Has(after.last_evicted, t)
                        /\ after.last_evicted[t] = arg'.last_evicted[t]
                  /\ \A t \in DOMAIN arg'.first_seen :
                        /\ Has(after.first_seen, t)
                        /\ after.first_seen[t] = arg'.first_seen[t]
             /\ Dangling(db, arg') \cap DependentTxids(db') = {}]_vars

\* an anchor and flags of a transaction committed by an earlier call,
\* accepted in a changeset that holds no transaction
C5_Witness ==
    /\ op = "persist_tx_graph"
    /\ res = "ok"
    /\ arg.txs = {}
    /\ arg.anchors # {}
    /\ arg.first_seen # Empty
    /\ Referenced(arg) \subseteq DependentTxids(db)

\* C6: first_seen keeps the minimum: when a successful persist_tx_graph
\* call gives first_seen {tx: b} for a transaction whose stored first_seen
\* is a, read_tx_graph afterwards returns first_seen[tx] = min(a, b).
C6_FirstSeenMin ==
    [][(op' = "persist_tx_graph" /\ res' = "ok")
       => LET before == TxGraphOf(db).cs.first_seen
              after == TxGraphOf(db').cs.first_seen
          IN \A t \in (DOMAIN arg'.first_seen) \cap (DOMAIN before) :
                 after[t] = MinOf(before[t], arg'.first_seen[t])]_vars

\* C7: last_seen and last_evicted keep the maximum: when a successful
\* persist_tx_graph call gives {tx: b} for a transaction whose stored value
\* is a, read_tx_graph afterwards returns max(a, b) in each of the two
\* fields.
C7_LastSeenMax ==
    [][(op' = "persist_tx_graph" /\ res' = "ok")
       => LET before == TxGraphOf(db).cs
              after == TxGraphOf(db').cs
          IN /\ \A t \in (DOMAIN arg'.last_seen) \cap (DOMAIN before.last_seen) :
                    after.last_seen[t] = MaxOf(before.last_seen[t], arg'.last_seen[t])
             /\ \A t \in (DOMAIN arg'.last_evicted) \cap (DOMAIN before.last_evicted) :
                    after.last_evicted[t] =
                        MaxOf(before.last_evicted[t], arg'.last_evicted[t])]_vars

(***************************************************************************)
(* Properties of persist_indexer.                                          *)
(***************************************************************************)
\* C8: the stored last_revealed index of a descriptor never decreases: after
\* a successful persist_indexer call, read_indexer returns for a descriptor
\* the maximum of the index it returned before and the index persisted.
C8_LastRevealedMax ==
    [][(op' = "persist_indexer" /\ res' = "ok")
       => LET before == IndexerOf(db).cs.last_revealed
              after == IndexerOf(db').cs.last_revealed
          IN /\ \A d \in DOMAIN before : Has(after, d) /\ after[d] >= before[d]
             /\ \A d \in (DOMAIN arg'.last_revealed) \cap (DOMAIN before) :
                    after[d] = MaxOf(before[d], arg'.last_revealed[d])]_vars

(***************************************************************************)
(* Properties of the set-valued fields.                                    *)
(***************************************************************************)
\* C9: set-valued fields accumulate as a union by key: after any sequence
\* of persist_tx_graph and persist_indexer calls, reading returns every
\* transaction, output, anchor key and script-cache key persisted by a
\* successful call, and no key that was never persisted.
C9_UnionByKey ==
    /\ IF TxGraphOf(db).st = "ok"
       THEN /\ TxGraphOf(db).cs.txs = hist.txs
            /\ DOMAIN TxGraphOf(db).cs.txouts = {e[1] : e \in hist.txouts}
            /\ AnchorKeys(TxGraphOf(db).cs) = AnchorKeys([anchors |-> hist.anchors])
       ELSE hist.txs = {} /\ hist.txouts = {} /\ hist.anchors = {}
    /\ IF IndexerOf(db).st = "ok"
       THEN SpkKeys(IndexerOf(db).cs.spk_cache) = {e[1] : e \in hist.spks}
       ELSE hist.spks = {}

\* two transactions persisted by two calls, one each, and an output
C9_Witness ==
    /\ op = "persist_tx_graph"
    /\ res = "ok"
    /\ Cardinality(arg.txs) = 1
    /\ Cardinality(hist.txs) = 2
    /\ hist.txouts # {}

\* C10: incoming value wins on a key conflict: after a successful call, the
\* value read back for every outpoint, (txid, block id) anchor key and
\* (descriptor id, index) script-cache key of the changeset is the
\* changeset's, whatever was stored for the key, and the key has one row.
C10_IncomingWins ==
    [][(op' \in {"persist_tx_graph", "persist_indexer"} /\ res' = "ok")
       => IF op' = "persist_tx_graph"
          THEN LET after == TxGraphOf(db').cs
               IN /\ \A o \in DOMAIN arg'.txouts :
                        Has(after.txouts, o) /\ after.txouts[o] = arg'.txouts[o]
                  /\ \A e \in arg'.anchors :
                        LET same == {x \in after.anchors :
                                        /\ x[2] = e[2]
                                        /\ anchor_block(x[1]) = anchor_block(e[1])}
                        IN Cardinality(same) = 1 /\ same \subseteq arg'.anchors
          ELSE LET after == IndexerOf(db').cs.spk_cache
               IN \A k \in SpkKeys(arg'.spk_cache) :
                      /\ Has(after, k[1])
                      /\ Has(after[k[1]], k[2])
                      /\ after[k[1]][k[2]] = arg'.spk_cache[k[1]][k[2]]]_vars

\* an output persisted for an outpoint that an earlier call persisted with
\* another value
C10_Witness ==
    /\ op = "persist_tx_graph"
    /\ res = "ok"
    /\ \E o \in DOMAIN arg.txouts :
           \E e \in hist.txouts : e[1] = o /\ e[2] # arg.txouts[o]

(***************************************************************************)
(* Properties of persist_wallet.                                           *)
(***************************************************************************)
\* C1: all table mutations of one persist_wallet call become visible
\* together or not at all: if a step of the call fails, a referential
\* rejection in the tx-graph step included, a read_wallet after the call
\* returns what a read_wallet before it returned, with none of the call's
\* network, descriptor, block, indexer or tx-graph changes.
\* (Stated for calls made once the wallet's tables exist.)
C1_AllOrNothing ==
    [][(op' = "persist_wallet" /\ res' # "ok" /\ WalletIn(db).st = "ok")
       => WalletIn(db') = WalletIn(db)]_vars

\* the tables of the wallet, just created and empty
FreshTables == create_tables(Empty, wallet_name).db

\* a wallet changeset that the tables can hold entry for entry: no block
\* entry is a tombstone, a change descriptor comes with a descriptor, and
\* no two anchors share a (txid, block id) key
Storable(changeset) ==
    /\ \A h \in DOMAIN changeset.local_chain.blocks : changeset.local_chain.blocks[h].some
    /\ changeset.change_descriptor.some => changeset.descriptor.some
    /\ \A x, y \in changeset.tx_graph.anchors :
          (x[2] = y[2] /\ anchor_block(x[1]) = anchor_block(y[1])) => x = y

ChainOf(d) == read_local_chain(d, wallet_name, EmptyLocalChain)

\* C12: tombstone semantics: a successful persist_local_chain removes the
\* heights whose entry is (h, None) and only those (the other stored
\* heights keep their hashes, and nothing appears that was not persisted),
\* and read_local_chain never returns a None entry.
C12_Tombstone ==
    [][(op' = "persist_local_chain" /\ res' = "ok" /\ ChainOf(db).st = "ok")
       => LET before == ChainOf(db).cs.blocks
              after == ChainOf(db').cs.blocks
              blocks == arg'.blocks
          IN /\ \A h \in DOMAIN blocks :
                    IF blocks[h].some THEN Has(after, h) /\ after[h] = blocks[h]
                    ELSE ~Has(after, h)
             /\ \A h \in (DOMAIN before) \ (DOMAIN blocks) :
                    Has(after, h) /\ after[h] = before[h]
             /\ DOMAIN after \subseteq (DOMAIN before) \cup (DOMAIN blocks)
             /\ \A h \in DOMAIN after : after[h].some]_vars

\* three heights were persisted, then a tombstone for one of them alone:
\* the two others are read back
C12_Witness ==
    /\ op = "persist_local_chain"
    /\ res = "ok"
    /\ {e[1] : e \in hist.blocks} = Heights
    /\ \E h \in Heights :
          /\ arg.blocks = One(h, None)
          /\ DOMAIN ChainOf(db).cs.blocks = Heights \ {h}

\* C13: persisting entries (h, None) for heights that are not stored
\* succeeds and leaves the blocks table unchanged.
\* (Stated for calls made once the blocks table exists.)
C13_TombstoneOfAbsentHeight ==
    [][(/\ op' = "persist_local_chain"
        /\ Has(db, blocks_table_name(wallet_name))
        /\ \A h \in DOMAIN arg'.blocks :
              /\ ~arg'.blocks[h].some
              /\ ~Has(db[blocks_table_name(wallet_name)], h))
       => res' = "ok" /\ db' = db]_vars

\* a tombstone for a height that no call stored, on a table that holds
\* another height
C13_Witness ==
    /\ op = "persist_local_chain"
    /\ res = "ok"
    /\ arg.blocks # Empty
    /\ \A h \in DOMAIN arg.blocks : ~arg.blocks[h].some
    /\ (DOMAIN arg.blocks) \cap {e[1] : e \in hist.blocks} = {}
    /\ Rows(db, blocks_table_name(wallet_name)) # Empty

\* C17: descriptor immutability: once a descriptor is stored for a label,
\* no later call rewrites or changes the descriptor stored for that label.
C17_DescriptorImmutable ==
    [][\A label \in DOMAIN Rows(db, keychain_table_name(wallet_name)) :
          /\ Has(Rows(db', keychain_table_name(wallet_name)), label)
          /\ db'[keychain_table_name(wallet_name)][label] =
                 db[keychain_table_name(wallet_name)][label]]_vars

(***************************************************************************)
(* Properties of two Stores on one database.                               *)
(***************************************************************************)
\* C14: namespace isolation: for two Stores with distinct wallet names on
\* one database, a persist through one Store leaves what read_wallet
\* returns through the other Store unchanged, in any order of the calls
\* (the network row in the shared network table included).
C14_NamespaceIsolation ==
    [][op' = "persist_wallet"
       => \A wn \in WalletNames \ {store'} :
              read_wallet(db', wn, EmptyWallet) = read_wallet(db, wn, EmptyWallet)]_vars

\* each Store persisted a network and a descriptor or a transaction of its
\* own, and the second Store reads back its own
C14_Witness ==
    /\ op = "read_wallet"
    /\ store = other_wallet_name
    /\ view.st = "ok"
    /\ view.cs # EmptyWallet
    /\ read_wallet(db, wallet_name, EmptyWallet).st = "ok"
    /\ read_wallet(db, wallet_name, EmptyWallet).cs # EmptyWallet
    /\ read_wallet(db, wallet_name, EmptyWallet).cs # view.cs

(***************************************************************************)
(* Properties of reads that run while another thread commits.              *)
(***************************************************************************)
\* C15: read_wallet decodes all tables from one snapshot: the changeset it
\* returns is what read_wallet returns from one database state that was
\* committed at some time of the call, so that no write transaction commits
\* between the states observed for two parts.
C15_OneSnapshot ==
    (pc = "done" /\ op = "read_wallet") => \E d \in seen : view = WalletIn(d)

\* C16: a read_tx_graph that runs while persist_tx_graph calls commit
\* returns what one committed database state holds, all or none of each
\* call's changes, and never an anchor or flag whose transaction is absent
\* from the same result.
C16_SnapshotRead ==
    (pc = "done" /\ op = "read_tx_graph")
        => /\ view = TxGraphOf(rtx)
           /\ rtx \in seen
           /\ view.st = "ok" => Referenced(view.cs) \subseteq TxKeys(view.cs)

\* a read that returned a transaction with its anchor and flags while a
\* commit of another transaction with its anchor and flags went by
C16_Witness ==
    /\ pc = "done"
    /\ op = "read_tx_graph"
    /\ view.st = "ok"
    /\ view.cs.anchors # {}
    /\ Cardinality(seen) = 2
    /\ view # TxGraphOf(db)
    /\ TxGraphOf(db).cs.anchors # view.cs.anchors

\* C18: persisting the same changeset twice in succession leaves the stored
\* state, as read_wallet returns it, identical to persisting it once: the
\* second of two successive persist_wallet calls with one changeset returns
\* what the first returned and changes nothing that read_wallet returns.
C18_Idempotent ==
    [][(op = "persist_wallet" /\ op' = "persist_wallet" /\ arg' = arg)
       => res' = res /\ WalletIn(db') = WalletIn(db)]_vars

\* the second of two successive calls with a changeset of a last_revealed
\* index and of a transaction with its anchor and observation flags
C18_Witness ==
    /\ repeat
    /\ op = "persist_wallet"
    /\ res = "ok"
    /\ arg.indexer.last_revealed # Empty
    /\ arg.tx_graph.txs # {}
    /\ arg.tx_graph.anchors # {}
    /\ arg.tx_graph.last_seen # Empty

\* a changeset that touches only set-valued and monotonic fields
OnlySetsAndMonotonic(changeset) ==
    /\ ~changeset.network.some
    /\ ~changeset.descriptor.some
    /\ ~changeset.change_descriptor.some
    /\ changeset.local_chain = EmptyLocalChain

\* two changesets whose set-valued fields hold no conflicting values
NoConflict(c1, c2) ==
    /\ \A x \in c1.tx_graph.txs, y \in c2.tx_graph.txs :
          compute_txid(x) = compute_txid(y) => x = y
    /\ \A o \in DOMAIN c1.tx_graph.txouts \cap DOMAIN c2.tx_graph.txouts :
          c1.tx_graph.txouts[o] = c2.tx_graph.txouts[o]
    /\ \A x \in c1.tx_graph.anchors, y \in c2.tx_graph.anchors :
          (x[2] = y[2] /\ anchor_block(x[1]) = anchor_block(y[1])) => x = y
    /\ \A k \in SpkKeys(c1.indexer.spk_cache) \cap SpkKeys(c2.indexer.spk_cache) :
          c1.indexer.spk_cache[k[1]][k[2]] = c2.indexer.spk_cache[k[1]][k[2]]

\* C19: for two changesets c1 and c2 that touch only set-valued fields
\* without conflicting values and the monotonic fields (first_seen,
\* last_seen, last_evicted, last_revealed), and that each pass the guard in
\* either order, read_wallet after persisting c1 then c2 returns what it
\* returns after persisting c2 then c1.
C19_Commutative ==
    [][LET c1 == arg
           c2 == arg'
           other1 == persist_wallet(prior, wallet_name, c2)
           other2 == persist_wallet(other1.db, wallet_name, c1)
       IN (/\ op = "persist_wallet" /\ res = "ok"
           /\ op' = "persist_wallet" /\ res' = "ok"
           /\ OnlySetsAndMonotonic(c1) /\ OnlySetsAndMonotonic(c2)
           /\ NoConflict(c1, c2)
           /\ other1.st = "ok" /\ other2.st = "ok")
          => WalletIn(db') = WalletIn(other2.db)]_vars

\* C20: WalletPersister::initialize on a database in which the wallet has
\* no tables yet succeeds, creates the tables and returns an empty (default)
\* changeset; initialize called again before any persist returns the same
\* empty changeset.
C20_InitializeEmpty ==
    (op = "initialize" /\ ncalls = 0)
        => /\ res = "ok"
           /\ view = [st |-> "ok", cs |-> EmptyWallet]
           /\ db = FreshTables

\* initialize, called again right after initialize and before any persist
C20_Witness ==
    /\ op = "initialize"
    /\ repeat
    /\ ncalls = 0
    /\ res = "ok"
    /\ view.cs = EmptyWallet

\* C21: loading a wallet for which no network record was ever stored reports
\* a typed, recoverable MissingDataError to the caller: read_network on a
\* network table with no row of the wallet returns that error.
C21_MissingNetworkReported ==
    (op = "read_network" /\ Has(db, NETWORK) /\ ~Has(db[NETWORK], wallet_name))
        => res = "MissingDataError"

\* C22: a stored value that cannot be decoded on load (an unparsable network
\* string, descriptor string or transaction payload) makes the read
\* operation return an error value to the caller; the read neither aborts
\* the process nor returns Ok with a default.
C22_DecodeFailureIsError ==
    /\ (/\ op = "read_network"
        /\ Has(db[NETWORK], wallet_name)
        /\ ~network_parses(db[NETWORK][wallet_name]))
           => res \notin {"ok", "panic"}
    /\ (/\ op = "read_keychains"
        /\ \E label \in DOMAIN db[keychain_table_name(wallet_name)] :
              ~descriptor_parses(db[keychain_table_name(wallet_name)][label]))
           => res \notin {"ok", "panic"}
    /\ (/\ op = "read_tx_graph"
        /\ \E k \in DOMAIN db[txs_table_name(wallet_name)] :
              ~Decodes(db[txs_table_name(wallet_name)][k]))
           => res \notin {"ok", "panic"}

\* the tables of the wallet other than the blocks table
TablesWithoutBlocks ==
    {NETWORK, keychain_table_name(wallet_name), txs_table_name(wallet_name),
     txouts_table_name(wallet_name), anchors_table_name(wallet_name),
     last_seen_table_name(wallet_name), last_evicted_table_name(wallet_name),
     first_seen_table_name(wallet_name), last_revealed_table_name(wallet_name),
     spk_table_name(wallet_name)}

\* C24: no deletion except block tombstones: a key once committed to the
\* network, descriptor, transactions, outputs, anchors, observation-flag,
\* last_revealed or script-cache table is in every later committed state;
\* a block height disappears only in a persist call whose changeset holds
\* (height, None).
C24_NoDeletion ==
    [][/\ \A name \in TablesWithoutBlocks :
              DOMAIN Rows(db, name) \subseteq DOMAIN Rows(db', name)
       /\ \A h \in (DOMAIN Rows(db, blocks_table_name(wallet_name)))
                      \ (DOMAIN Rows(db', blocks_table_name(wallet_name))) :
              /\ op' = "persist_wallet"
              /\ Has(arg'.local_chain.blocks, h)
              /\ ~arg'.local_chain.blocks[h].some]_vars

\* a call with a tombstone has removed a height that an earlier call
\* stored, and the network or the transaction of that earlier call is still
\* stored
C24_Witness ==
    /\ op = "persist_wallet"
    /\ res = "ok"
    /\ ~arg.network.some
    /\ arg.tx_graph.txs = {}
    /\ \E e \in hist.blocks :
          /\ Has(arg.local_chain.blocks, e[1])
          /\ ~arg.local_chain.blocks[e[1]].some
          /\ ~Has(Rows(db, blocks_table_name(wallet_name)), e[1])
    /\ \/ Has(Rows(db, NETWORK), wallet_name)
       \/ Rows(db, txs_table_name(wallet_name)) # Empty

\* C28: block upsert: persisting a blocks entry (h, Some(hash)) makes
\* read_local_chain return hash at height h whether or not h was stored
\* before (a stored hash is replaced), and every height that the changeset
\* does not name keeps its stored hash.
C28_BlockUpsert ==
    [][(op' = "persist_local_chain" /\ res' = "ok")
       => LET before == Rows(db, blocks_table_name(wallet_name))
              after == ChainOf(db')
              blocks == arg'.blocks
          IN /\ after.st = "ok"
             /\ \A h \in DOMAIN blocks :
                    blocks[h].some
                        => Has(after.cs.blocks, h) /\ after.cs.blocks[h] = blocks[h]
             /\ \A h \in (DOMAIN before) \ (DOMAIN blocks) :
                    Has(after.cs.blocks, h) /\ after.cs.blocks[h] = Some(before[h])]_vars

\* a call replaced the hash that an earlier call stored at a height, and
\* another height, which the call does not name, is still stored
C28_Witness ==
    /\ op = "persist_local_chain"
    /\ res = "ok"
    /\ \E h \in DOMAIN arg.blocks :
          /\ arg.blocks[h].some
          /\ \E e \in hist.blocks : e[1] = h /\ e[2] # arg.blocks[h].val
          /\ ChainOf(db).cs.blocks[h] = arg.blocks[h]
    /\ \E h \in Heights :
          ~Has(arg.blocks, h) /\ Has(Rows(db, blocks_table_name(wallet_name)), h)

\* C29: read_network sets the caller's value to the network most recently
\* persisted with persist_network(Some(n)) for this wallet, whatever the
\* caller passed in; persist_network(None), like every call other than
\* persist_network(Some(n)), leaves the stored network unchanged.
C29_NetworkLastPersisted ==
    [][IF op' = "persist_network" /\ arg'.some
       THEN /\ res' = "ok"
            /\ \A network \in NetworkOptions :
                  read_network(db', wallet_name, network) = [st |-> "ok", val |-> arg']
       ELSE /\ Rows(db', NETWORK) = Rows(db, NETWORK)
            /\ Has(db, NETWORK) =>
                  \A network \in NetworkOptions :
                      read_network(db', wallet_name, network) =
                          read_network(db, wallet_name, network)]_vars

\* persist_network(None) was called on a database that holds a network,
\* and a read passing the other network returns the stored one
C29_Witness ==
    /\ op = "persist_network"
    /\ res = "ok"
    /\ ~arg.some
    /\ Has(Rows(db, NETWORK), wallet_name)
    /\ \E n \in Networks :
          /\ read_network(db, wallet_name, Some(n)).val.some
          /\ read_network(db, wallet_name, Some(n)).val.val # n

(***************************************************************************)
(* Properties of the anchor variants and of the anchor key.                *)
(***************************************************************************)
\* the (txid, block id) keys of a set of anchors of a variant
KeysOf(variant, anchors) == {<<e[2], anchor_block_of(variant, e[1])>> : e \in anchors}

\* C25: anchor variant round trip: for both variants (BlockId with no
\* metadata, ConfirmationBlockTime with a confirmation time),
\* from_id(a.anchor_block(), a.metadata()) = a, and a set of anchors with
\* pairwise distinct (txid, block id) keys is read back unchanged after it
\* was persisted.
C25_AnchorRoundTrip ==
    /\ op = "from_id" => view.anchor = arg.anchor
    /\ (/\ op = "anchors"
        /\ Cardinality(KeysOf(arg.variant, arg.anchors)) = Cardinality(arg.anchors))
           => view.anchors = arg.anchors

\* two anchors of one transaction in two blocks, one at height u32::MAX,
\* were stored and read back, for the variant without metadata
C25_Witness ==
    /\ op = "anchors"
    /\ arg.variant = "BlockId"
    /\ Cardinality(arg.anchors) = 2
    /\ \E e \in arg.anchors : e[1].height = U32_MAX
    /\ Cardinality(DOMAIN view.table) = 2
    /\ \A k \in DOMAIN view.table : view.table[k] = None

\* C26: block-id key round trip: unpacking the key packed from (height,
\* hash) returns (height, hash), for every height, 0 and u32::MAX included,
\* so that two anchors of one transaction in different blocks are in
\* different rows.
C26_BlockIdKeyRoundTrip ==
    /\ op = "pack_block_id" => view.block_id = arg /\ Len(view.bytes) = 4 + Len(arg.hash)
    /\ op = "compare" => (view.ord = "Equal" <=> arg[1] = arg[2])
    /\ op = "anchors" =>
          Cardinality(DOMAIN view.table) = Cardinality(KeysOf(arg.variant, arg.anchors))

\* the key of a block id at height u32::MAX was packed and unpacked
C26_Witness ==
    /\ op = "pack_block_id"
    /\ arg.height = U32_MAX
    /\ view.bytes = <<255, 255, 255, 255>> \o arg.hash
    /\ view.block_id.height = U32_MAX

\* C27: order-preserving height keys: for two block ids with heights
\* h1 < h2, the packed key of the first compares less than the packed key
\* of the second under the byte-lexicographic comparison of keys.
C27_KeyOrderIsHeightOrder ==
    (op = "compare" /\ U32Less(arg[1].height, arg[2].height)) => view.ord = "Less"

(***************************************************************************)
(* Properties of the writing threads.                                      *)
(***************************************************************************)
\* the network, the descriptors and the blocks of the call of th are rows of
\* the database d
RootsCommitted(th, d) ==
    /\ th.changeset.network.some => Has(Rows(d, NETWORK), wallet_name)
    /\ \A label \in DOMAIN desc_changeset_of(th.changeset) :
          Has(Rows(d, keychain_table_name(wallet_name)), label)
    /\ \A height \in DOMAIN th.changeset.local_chain.blocks :
          th.changeset.local_chain.blocks[height].some
              => Has(Rows(d, blocks_table_name(wallet_name)), height)

\* the transactions and the outputs of the call of th are rows of the tables d
TxRootsIn(th, d) ==
    /\ TxKeys(th.changeset.tx_graph) \subseteq DOMAIN Rows(d, txs_table_name(wallet_name))
    /\ \A o \in DOMAIN th.changeset.tx_graph.txouts :
          Has(Rows(d, txouts_table_name(wallet_name)), <<o.txid, o.vout>>)

\* the txids that a guarded step of a call checks
StepReferences(step, g) ==
    CASE step = "anchors" -> {e[2] : e \in g.anchors}
      [] step = "last_seen" -> DOMAIN g.last_seen
      [] step = "last_evicted" -> DOMAIN g.last_evicted
      [] step = "first_seen" -> DOMAIN g.first_seen
      [] OTHER -> {}

\* C23, as stated: within one persist call, the transactions, outputs,
\* descriptors, network and blocks of the call are written and committed
\* before any anchor or observation flag of the call is checked or inserted:
\* whenever a thread is about to run a guarded step, every root of its call
\* is a row of the committed database.
C23_RootsCommittedFirst ==
    \A thread \in Threads :
        writers[thread].pc \in GuardSteps
            => /\ RootsCommitted(writers[thread], db)
               /\ TxRootsIn(writers[thread], db)

\* C23, amended: whenever a thread is about to run a guarded step of its
\* call, the network, the descriptors and the blocks of the call are rows of
\* the committed database, and the transactions and the outputs of the call
\* are rows of the call's open write transaction, which has committed
\* nothing yet: the committed database is still the snapshot the call took.
C23_RootsWrittenFirst ==
    \A thread \in Threads :
        writers[thread].pc \in GuardSteps
            => /\ RootsCommitted(writers[thread], db)
               /\ writers[thread].w.some
               /\ TxRootsIn(writers[thread], writers[thread].w.val)
               /\ db = writers[thread].read_tx

\* a thread is about to check the anchor of a call that carries a network, a
\* descriptor, a block, a transaction and an output: the transaction is in
\* the write transaction and not in the committed database
C23_Witness ==
    \E thread \in Threads :
        LET th == writers[thread]
        IN /\ th.pc = "anchors"
           /\ th.changeset.network.some
           /\ th.changeset.descriptor.some
           /\ th.changeset.local_chain.blocks # Empty
           /\ th.changeset.tx_graph.txs # {}
           /\ th.changeset.tx_graph.txouts # Empty
           /\ th.changeset.tx_graph.anchors # {}
           /\ RootsCommitted(th, db)
           /\ TxRootsIn(th, th.w.val)
           /\ ~TxRootsIn(th, db)

\* C30: under any interleaving of writing threads, a guarded step whose
\* anchors or flags all reference transactions that are committed when the
\* step runs is accepted: the call goes on and does not fail.
C30_GuardNeverStale ==
    [][\A thread \in Threads :
          LET th == writers[thread]
              refs == StepReferences(th.pc, th.changeset.tx_graph)
          IN (/\ writers'[thread] # th
              /\ refs # {}
              /\ refs \subseteq DOMAIN Rows(db, txs_table_name(wallet_name)))
                 => /\ writers'[thread].st = "ok"
                    /\ writers'[thread].pc # "done"]_vars

\* a call that carries an anchor and a flag without their transaction has
\* returned Ok, after it waited in begin_write while another thread committed
C30_Witness ==
    \E thread \in Threads :
        LET th == writers[thread]
        IN /\ th.pc = "done"
           /\ th.st = "ok"
           /\ th.overtaken
           /\ th.changeset.tx_graph.txs = {}
           /\ th.changeset.tx_graph.anchors # {}
           /\ th.changeset.tx_graph.last_seen # Empty

\* C31: no call requests a write transaction while it holds one, so with
\* several threads calling persist_wallet on one database no call waits for
\* ever: every call that has begun eventually returns.
C31_EveryCallReturns ==
    \A thread \in Threads :
        (writers[thread].pc \notin {"idle", "done"}) ~> (writers[thread].pc = "done")

\* both threads have returned, one of them after it waited in begin_write
\* for the write transaction of the other
C31_Witness ==
    \E t1 \in Threads, t2 \in Threads :
        /\ t1 # t2
        /\ writers[t1].pc = "done"
        /\ writers[t1].overtaken
        /\ writers[t2].pc = "done"
        /\ writers[t2].st = "ok"
        /\ ncalls = MaxCalls

(***************************************************************************)
(* Further properties of the single operations.                            *)
(***************************************************************************)
\* C32: persist_tx_graph on a database whose transactions table was never
\* created and committed returns a table error, whatever the changeset, the
\* empty one included, and commits nothing: the database is as before, the
\* tables its write transaction opened do not exist.
C32_NoTableNoCommit ==
    [][(op' = "persist_tx_graph" /\ ~Has(db, txs_table_name(wallet_name)))
          => /\ res' = "TableError"
             /\ db' = db
             /\ ~Has(db', anchors_table_name(wallet_name))]_vars

\* persist_tx_graph of the empty changeset has returned a table error on a
\* database without tables
C32_Witness ==
    /\ op = "persist_tx_graph"
    /\ arg = EmptyTxGraph
    /\ res = "TableError"
    /\ db = Empty

\* C33: persist_wallet of a changeset without a descriptor writes no
\* descriptor row, with or without a change descriptor; and read_wallet into
\* a default changeset returns a change_descriptor only when a descriptor is
\* stored under label 0, which it returns as descriptor.
C33_ChangeDescriptorNeedsDescriptor ==
    [][/\ (op' = "persist_wallet" /\ ~arg'.descriptor.some)
             => Rows(db', keychain_table_name(wallet_name))
                    = Rows(db, keychain_table_name(wallet_name))
       /\ (op' = "read_wallet" /\ view'.cs.change_descriptor.some)
             => /\ Has(Rows(db, keychain_table_name(wallet_name)), 0)
                /\ view'.cs.descriptor.some]_vars

\* read_wallet has returned no change_descriptor from a database that stores
\* a descriptor under label 1 and none under label 0
C33_Witness ==
    /\ op = "read_wallet"
    /\ res = "ok"
    /\ Has(Rows(db, keychain_table_name(wallet_name)), 1)
    /\ ~Has(Rows(db, keychain_table_name(wallet_name)), 0)
    /\ view.cs.change_descriptor = None
    /\ view.cs.descriptor = None

\* the txids of the outpoints of a changeset's outputs and of the rows of the
\* outputs table of d
OutputTxids(d, changeset) ==
    {o.txid : o \in DOMAIN changeset.txouts}
    \cup {k[1] : k \in DOMAIN Rows(d, txouts_table_name(wallet_name))}

\* C34: an anchor or an observation flag whose txid is the txid of an output
\* of the changeset or of a stored output, and neither the txid of a
\* transaction of the changeset nor of a stored transaction, is rejected:
\* persist_tx_graph panics and commits nothing.
C34_OutputsDoNotCount ==
    [][(/\ op' = "persist_tx_graph"
        /\ Has(db, txs_table_name(wallet_name))
        /\ Dangling(db, arg') \cap OutputTxids(db, arg') # {})
          => /\ res' = "panic"
             /\ db' = db]_vars

\* persist_tx_graph has rejected a changeset that carries an output and an
\* anchor of the same txid and not the transaction
C34_Witness ==
    /\ op = "persist_tx_graph"
    /\ res = "panic"
    /\ arg.txs = {}
    /\ arg.last_seen = Empty
    /\ \E e \in arg.anchors : \E o \in DOMAIN arg.txouts : o.txid = e[2]
    /\ Has(db, txs_table_name(wallet_name))
    /\ Rows(db, txs_table_name(wallet_name)) = Empty

\* the map of the caller with the stored entries put over it
Over(caller, stored) ==
    [k \in (DOMAIN caller) \cup (DOMAIN stored) |->
        IF k \in DOMAIN stored THEN stored[k] ELSE caller[k]]

\* the same for the scripts, which are keyed by descriptor and index
OverSpks(caller, stored) ==
    [desc \in (DOMAIN caller) \cup (DOMAIN stored) |->
        Over(IF desc \in DOMAIN caller THEN caller[desc] ELSE Empty,
             IF desc \in DOMAIN stored THEN stored[desc] ELSE Empty)]

\* C35: a read operation that returns Ok leaves in the caller's changeset
\* every entry whose key is not stored, puts the stored value under every
\* stored key, and adds the stored elements to the caller's sets; no read
\* operation changes the database. What is stored is what the same
\* operation returns into an empty changeset.
C35_ReadsAddNeverClear ==
    [][/\ op' \in {"read_tx_graph", "read_indexer", "read_local_chain", "read_keychains"}
             => db' = db
       /\ (op' = "read_tx_graph" /\ res' = "ok")
             => LET stored == TxGraphOf(db).cs
                    got == view'.cs
                IN /\ got.txs = arg'.txs \cup stored.txs
                   /\ got.anchors = arg'.anchors \cup stored.anchors
                   /\ got.txouts = Over(arg'.txouts, stored.txouts)
                   /\ got.last_seen = Over(arg'.last_seen, stored.last_seen)
                   /\ got.last_evicted = Over(arg'.last_evicted, stored.last_evicted)
                   /\ got.first_seen = Over(arg'.first_seen, stored.first_seen)
       /\ (op' = "read_indexer" /\ res' = "ok")
             => LET stored == IndexerOf(db).cs
                IN /\ view'.cs.last_revealed = Over(arg'.last_revealed, stored.last_revealed)
                   /\ view'.cs.spk_cache = OverSpks(arg'.spk_cache, stored.spk_cache)
       /\ (op' = "read_local_chain" /\ res' = "ok")
             => view'.cs.blocks
                    = Over(arg'.blocks,
                           read_local_chain(db, wallet_name, EmptyLocalChain).cs.blocks)
       /\ (op' = "read_keychains" /\ res' = "ok")
             => view'.val = Over(arg', read_keychains(db, wallet_name, Empty).val)]_vars

\* read_tx_graph has returned, into a changeset with a transaction that is
\* not stored and a last_seen of a stored transaction, both the caller's
\* transaction and the stored last_seen
C35_Witness ==
    /\ op = "read_tx_graph"
    /\ res = "ok"
    /\ arg.last_seen = One(compute_txid(TheTx), 0)
    /\ Rows(db, last_seen_table_name(wallet_name)) = One(compute_txid(TheTx), MaxVal)
    /\ view.cs.last_seen = One(compute_txid(TheTx), MaxVal)
    /\ OtherTx \in view.cs.txs
    /\ OtherTx \notin TxGraphOf(db).cs.txs
    /\ {EarlyAnchor, TheAnchor} \subseteq {e[1] : e \in view.cs.anchors}

\* C36: persist_wallet of the default changeset on a database where every
\* table of create_tables exists returns Ok and leaves the database as it
\* was: read_wallet returns the same changeset before and after.
C36_EmptyChangeSetIsNoOp ==
    [][(/\ op' = "persist_wallet"
        /\ arg' = EmptyWallet
        /\ DOMAIN create_tables(Empty, wallet_name).db \subseteq DOMAIN db)
          => /\ res' = "ok"
             /\ db' = db
             /\ WalletIn(db') = WalletIn(db)]_vars

\* persist_wallet of the default changeset has returned Ok on a database
\* that stores a network and a transaction
C36_Witness ==
    /\ op = "persist_wallet"
    /\ arg = EmptyWallet
    /\ res = "ok"
    /\ Has(Rows(db, NETWORK), wallet_name)
    /\ Rows(db, txs_table_name(wallet_name)) # Empty
    /\ WalletIn(db).st = "ok"

(***************************************************************************)
(* Properties of the wrapper types.                                        *)
(***************************************************************************)
\* C37: for every wrapper whose fixed_width() is Some(n), as_bytes returns
\* exactly n bytes.
C37_DeclaredWidthIsEncodedWidth ==
    (op = "as_bytes" /\ view.fixed_width.some)
        => Len(view.bytes) = view.fixed_width.val

\* C38: every key comparator returns an ordering for every pair of encoded
\* keys, the empty script included, and returns Equal only for two keys of
\* the same bytes.
C38_CompareEqualOnlyOnSameKey ==
    op = "key_compare"
        => /\ view.ord \in {"Less", "Equal", "Greater"}
           /\ view.ord = "Equal" => arg.data1 = arg.data2

====
